---- MODULE Spec2Model ----
(***************************************************************************)
(* Model of audiomemo's capture-process orchestration                      *)
(* (internal/record/recorder.go) together with the callers that drive it   *)
(* (internal/tui/model.go, cmd/record.go).                                 *)
(*                                                                         *)
(* One Recorder owns one ffmpeg process.  Start spawns two goroutines: the *)
(* stderr reader (parseStderr) and the exit waiter (the closure around     *)
(* cmd.Wait).  The foreground caller issues Pause and Stop; any number of  *)
(* callers block in Wait or receive from Done; one consumer drains Level.  *)
(*                                                                         *)
(* Further parts: device resolution and the record command's choice of     *)
(* devices (internal/config/config.go, cmd/record.go,                      *)
(* internal/tui/recordpicker.go), the backend dispatcher and the cloud     *)
(* backends' option validation (internal/transcribe).  Each part has its   *)
(* own variables and its own specification; the variables of the other     *)
(* parts stay at their initial values.                                     *)
(***************************************************************************)
EXTENDS Integers, Sequences, FiniteSets, TLC

\* ------------------------------------------------------------------ bounds
MaxCalls == 3        \* Pause/Stop calls issued by the foreground caller
MaxLinesCtl == 1     \* stderr lines ffmpeg prints under Spec
MaxLines == 12       \* stderr lines ffmpeg prints under SpecLevel
MaxJunk == 1         \* of those, lines that carry no parsable RMS value
PipeMax == 1         \* lines the stderr pipe holds before ffmpeg blocks
NumWaiters == 2      \* goroutines calling Recorder.Wait
NumReceivers == 2    \* goroutines receiving from Recorder.Done

Waiters == 1..NumWaiters
Receivers == 1..NumReceivers

\* ------------------------------------------------------- program constants
\* Level: make(chan float64, 10)
LevelCap == 10
\* Done: make(chan error, 1)
DoneCapMut == 0
DoneCap == 1

VARIABLES
  proc,          \* OS state of ffmpeg: "running", "suspended" (SIGSTOP), "exited"
  exitCode,      \* status the process exited with: "none", "nil", "err"
  stdinQ,        \* number of unread 'q' bytes in ffmpeg's stdin pipe
  stdinClosed,   \* r.stdin has been closed by the caller
  pipe,          \* lines written to stderr and not yet scanned
  stderrClosed,  \* read end of the stderr pipe closed (cmd.Wait does this)
  paused,        \* r.paused
  exitErr,       \* r.exitErr: "unset", "nil", "err"
  Done,          \* r.Done, buffered channel of errors
  done,          \* r.done has been closed
  Level,         \* r.Level, buffered channel of samples
  levelClosed,   \* r.Level has been closed
  waiterPc,      \* exit-waiter goroutine: "wait", "publish", "close", "finished"
  readerPc,      \* parseStderr goroutine: "scan", "finished"
  callerPc,      \* foreground caller: "idle", "stop_write", "stop_close"
  calls,         \* Pause/Stop calls issued so far
  waitPc,        \* per Wait caller: "blocked" (in or before <-r.done), "returned"
  waitRes,       \* per Wait caller: value returned by Wait
  recvPc,        \* per Done receiver: "blocked" (in or before <-r.Done), "got"
  recvRes,       \* per Done receiver: value received
  consumerPc,    \* listenLevel loop: "listening", "closed"
  produced,      \* history: RMS values ffmpeg printed, in order
  received,      \* history: samples the consumer received, in order
  junk,          \* history: number of non-sample lines printed
  published,     \* history: number of sends on Done that completed
  levelCloses,   \* history: number of close(r.Level) executed
  lateSends,     \* history: sends on Level attempted after it was closed
  stopCalls,     \* history: number of Stop calls begun
  stopResumed,   \* history: some Stop call found the recorder paused
  qWrites,       \* history: number of stdin.Write("q") calls made
  lastDrop,      \* history: last sample discarded by the reader, 0 if none
  rIn,           \* record command: configuration and flags of one invocation
  rOut,          \* record command: how far it got and with which devices
  dIn,           \* dispatcher: configuration, override and executables on PATH
  dOut,          \* dispatcher: the backend constructed or the error returned
  tIn,           \* cloud Transcribe: backend, key, options and environment
  tOut,          \* cloud Transcribe: error, HTTP requests issued
  pIn,           \* parser: the backend output to decode, diarize flag
  pOut,          \* parser and formatter: the Result, the error, the rendering
  lIn,           \* local Transcribe: variant, input file, what the machine does
  lOut,          \* local Transcribe: position, temporary directory, error
  aIn,           \* ffmpeg arguments: the RecordOpts
  aOut,          \* ffmpeg arguments: the argument list built
  tui,           \* recording screen: its Model, the recorder and the process
  onb,           \* onboarding: the screen, the configuration, what was saved
  vu,            \* device manager: the level preview and its processes
  pick,          \* record picker: the items and which are selected
  dev            \* device manager and device commands: the configuration

vars == <<proc, exitCode, stdinQ, stdinClosed, pipe, stderrClosed, paused,
          exitErr, Done, done, Level, levelClosed, waiterPc, readerPc,
          callerPc, calls, waitPc, waitRes, recvPc, recvRes, consumerPc,
          produced, received, junk, published, levelCloses, lateSends,
          stopCalls, stopResumed, qWrites, lastDrop,
          rIn, rOut, dIn, dOut, tIn, tOut, pIn, pOut, lIn, lOut, aIn, aOut,
          tui, onb, vu, pick, dev>>

recVars == <<proc, exitCode, stdinQ, stdinClosed, pipe, stderrClosed, paused,
             exitErr, Done, done, Level, levelClosed, waiterPc, readerPc,
             callerPc, calls, waitPc, waitRes, recvPc, recvRes, consumerPc,
             produced, received, junk, published, levelCloses, lateSends,
             stopCalls, stopResumed, qWrites, lastDrop>>
cmdVars == <<rIn, rOut>>
dispVars == <<dIn, dOut>>
trVars == <<tIn, tOut>>
parseVars == <<pIn, pOut>>
localVars == <<lIn, lOut>>
argsVars == <<aIn, aOut>>
uiVars == <<tui, onb, vu, pick, dev>>
coreVars == <<recVars, cmdVars, dispVars, trVars, parseVars, localVars, argsVars>>

procVars == <<proc, exitCode, stdinQ, stdinClosed, paused>>
ioVars == <<pipe, stderrClosed, Level, levelClosed, readerPc, consumerPc>>
doneVars == <<exitErr, Done, done, waiterPc>>
callVars == <<callerPc, calls>>
obsVars == <<waitPc, waitRes, recvPc, recvRes>>
histVars == <<produced, received, junk, published, levelCloses, lateSends,
              stopCalls, stopResumed, qWrites, lastDrop>>

\* State right after Start returned a Recorder: ffmpeg runs, both goroutines
\* are spawned, channels are empty and open.
StartedInit ==
  /\ proc = "running" /\ exitCode = "none"
  /\ stdinQ = 0 /\ stdinClosed = FALSE
  /\ pipe = <<>> /\ stderrClosed = FALSE
  /\ paused = FALSE /\ exitErr = "unset"
  /\ Done = <<>> /\ done = FALSE
  /\ Level = <<>> /\ levelClosed = FALSE
  /\ waiterPc = "wait" /\ readerPc = "scan"
  /\ callerPc = "idle" /\ calls = 0
  /\ waitRes = [c \in Waiters |-> "unset"]
  /\ recvRes = [c \in Receivers |-> "unset"]
  /\ consumerPc = "listening"
  /\ produced = <<>> /\ received = <<>> /\ junk = 0
  /\ published = 0 /\ levelCloses = 0 /\ lateSends = 0
  /\ stopCalls = 0 /\ stopResumed = FALSE /\ qWrites = 0 /\ lastDrop = 0

\* Callers already blocked in Wait and on a receive from Done.
ObserversWaiting ==
  /\ waitPc = [c \in Waiters |-> "blocked"]
  /\ recvPc = [c \in Receivers |-> "blocked"]

\* Nobody ever calls Wait or receives from Done.
NoObservers ==
  /\ waitPc = [c \in Waiters |-> "idle"]
  /\ recvPc = [c \in Receivers |-> "idle"]

RecorderInit == StartedInit /\ ObserversWaiting

\* The parts that are not running in a specification.
CmdIdle == rIn = [mode |-> "none"] /\ rOut = [pc |-> "none"]
DispIdle == dIn = [mode |-> "none"] /\ dOut = [pc |-> "none"]
TrIdle == tIn = [mode |-> "none"] /\ tOut = [pc |-> "none"]
ParseIdle == pIn = [mode |-> "none"] /\ pOut = [pc |-> "none"]
LocalIdle == lIn = [mode |-> "none"] /\ lOut = [pc |-> "none"]
ArgsIdle == aIn = [mode |-> "none"] /\ aOut = [pc |-> "none"]
TuiIdle == tui = [pc |-> "none"]
OnbIdle == onb = [pc |-> "none"]
VuIdle == vu = [pc |-> "none"]
PickIdle == pick = [pc |-> "none"]
DevIdle == dev = [pc |-> "none"]
UiIdle == TuiIdle /\ OnbIdle /\ VuIdle /\ PickIdle /\ DevIdle
OthersIdle == ParseIdle /\ LocalIdle /\ ArgsIdle /\ UiIdle
BackendsIdle == CmdIdle /\ DispIdle /\ TrIdle /\ ParseIdle /\ LocalIdle /\ ArgsIdle

Init == RecorderInit /\ CmdIdle /\ DispIdle /\ TrIdle /\ OthersIdle

\* ------------------------------------------------------------- the process
\* ffmpeg prints one stderr line.  A sample line carries a parsable RMS
\* value (tagged by its position in the stream so that each produced sample
\* is distinguishable); a junk line either does not match rmsPattern
\* ("other") or matches it with text ParseFloat rejects ("bad").
EmitLine(max) ==
  /\ proc = "running"
  /\ Len(pipe) < PipeMax
  /\ Len(produced) + junk < max
  /\ \/ /\ pipe' = Append(pipe, [kind |-> "val", val |-> Len(produced) + junk + 1])
        /\ produced' = Append(produced, Len(produced) + junk + 1)
        /\ junk' = junk
     \/ /\ junk < MaxJunk
        /\ \E k \in {"bad", "other"} : pipe' = Append(pipe, [kind |-> k, val |-> 0])
        /\ junk' = junk + 1
        /\ produced' = produced
  /\ UNCHANGED <<proc, exitCode, stdinQ, stdinClosed, paused, stderrClosed,
                 Level, levelClosed, readerPc, consumerPc>>
  /\ UNCHANGED <<doneVars, callVars, obsVars>>
  /\ UNCHANGED <<received, published, levelCloses, lateSends, stopCalls,
                 stopResumed, qWrites, lastDrop>>
  /\ UNCHANGED <<cmdVars, dispVars, trVars, parseVars, localVars, argsVars, uiVars>>

\* ffmpeg reads the 'q' byte from its stdin and shuts down; finalising the
\* output may succeed or fail.
ProcQuit ==
  /\ proc = "running"
  /\ stdinQ > 0
  /\ stdinQ' = stdinQ - 1
  /\ proc' = "exited"
  /\ \E e \in {"nil", "err"} : exitCode' = e
  /\ UNCHANGED <<stdinClosed, paused>>
  /\ UNCHANGED <<ioVars, doneVars, callVars, obsVars, histVars>>
  /\ UNCHANGED <<cmdVars, dispVars, trVars, parseVars, localVars, argsVars, uiVars>>

\* ffmpeg exits without having been asked to (device lost, encoder error).
ProcFail ==
  /\ proc = "running"
  /\ proc' = "exited"
  /\ exitCode' = "err"
  /\ UNCHANGED <<stdinQ, stdinClosed, paused>>
  /\ UNCHANGED <<ioVars, doneVars, callVars, obsVars, histVars>>
  /\ UNCHANGED <<cmdVars, dispVars, trVars, parseVars, localVars, argsVars, uiVars>>

\* ---------------------------------------------------- Recorder.Pause/Stop
\* Effect of Process.Signal on the OS process: SIGSTOP suspends a running
\* process, SIGCONT resumes a suspended one, an exited process is unchanged.
Signal(p, sig) ==
  IF p = "running" /\ sig = "SIGSTOP" THEN "suspended"
  ELSE IF p = "suspended" /\ sig = "SIGCONT" THEN "running"
  ELSE p

\* Recorder.Pause: toggles on r.paused (r.cmd.Process is never nil once
\* Start has returned a Recorder).
Pause ==
  /\ callerPc = "idle"
  /\ calls < MaxCalls
  /\ calls' = calls + 1
  /\ IF paused
       THEN proc' = Signal(proc, "SIGCONT") /\ paused' = FALSE
       ELSE proc' = Signal(proc, "SIGSTOP") /\ paused' = TRUE
  /\ UNCHANGED <<callerPc, exitCode, stdinQ, stdinClosed>>
  /\ UNCHANGED <<ioVars, doneVars, obsVars, histVars>>
  /\ UNCHANGED <<cmdVars, dispVars, trVars, parseVars, localVars, argsVars, uiVars>>

\* Recorder.Stop, first statement: resume if paused.
StopResumeMut ==
  /\ callerPc = "idle"
  /\ calls < MaxCalls
  /\ calls' = calls + 1
  /\ callerPc' = "stop_write"
  /\ stopCalls' = stopCalls + 1
  /\ stopResumed' = (stopResumed \/ paused)
  /\ UNCHANGED <<proc, paused>>
  /\ UNCHANGED <<exitCode, stdinQ, stdinClosed>>
  /\ UNCHANGED <<ioVars, doneVars, obsVars>>
  /\ UNCHANGED <<produced, received, junk, published, levelCloses, lateSends,
                 qWrites, lastDrop>>
  /\ UNCHANGED <<cmdVars, dispVars, trVars, parseVars, localVars, argsVars, uiVars>>

StopResume ==
  /\ callerPc = "idle"
  /\ calls < MaxCalls
  /\ calls' = calls + 1
  /\ callerPc' = "stop_write"
  /\ stopCalls' = stopCalls + 1
  /\ stopResumed' = (stopResumed \/ paused)
  /\ IF paused
       THEN proc' = Signal(proc, "SIGCONT") /\ paused' = FALSE
       ELSE UNCHANGED <<proc, paused>>
  /\ UNCHANGED <<exitCode, stdinQ, stdinClosed>>
  /\ UNCHANGED <<ioVars, doneVars, obsVars>>
  /\ UNCHANGED <<produced, received, junk, published, levelCloses, lateSends,
                 qWrites, lastDrop>>
  /\ UNCHANGED <<cmdVars, dispVars, trVars, parseVars, localVars, argsVars, uiVars>>

\* Recorder.Stop, r.stdin.Write("q"): the byte reaches the pipe unless the
\* write end is already closed or the reader is gone; the error is ignored.
StopWrite ==
  /\ callerPc = "stop_write"
  /\ callerPc' = "stop_close"
  /\ qWrites' = qWrites + 1
  /\ stdinQ' = IF stdinClosed \/ proc = "exited" THEN stdinQ ELSE stdinQ + 1
  /\ UNCHANGED <<proc, exitCode, stdinClosed, paused, calls>>
  /\ UNCHANGED <<ioVars, doneVars, obsVars>>
  /\ UNCHANGED <<produced, received, junk, published, levelCloses, lateSends,
                 stopCalls, stopResumed, lastDrop>>
  /\ UNCHANGED <<cmdVars, dispVars, trVars, parseVars, localVars, argsVars, uiVars>>

\* Recorder.Stop, r.stdin.Close().
StopClose ==
  /\ callerPc = "stop_close"
  /\ callerPc' = "idle"
  /\ stdinClosed' = TRUE
  /\ UNCHANGED <<proc, exitCode, stdinQ, paused, calls>>
  /\ UNCHANGED <<ioVars, doneVars, obsVars, histVars>>
  /\ UNCHANGED <<cmdVars, dispVars, trVars, parseVars, localVars, argsVars, uiVars>>

Stop == StopResume \/ StopWrite \/ StopClose

\* ------------------------------------------------- the exit-waiter goroutine
ErrOf(code) == IF code = "nil" THEN "nil" ELSE "err"

\* r.exitErr = cmd.Wait(): returns once the process has exited; cmd.Wait
\* also closes the parent's read end of the stderr pipe.
WaiterReap ==
  /\ waiterPc = "wait"
  /\ proc = "exited"
  /\ exitErr' = ErrOf(exitCode)
  /\ stderrClosed' = TRUE
  /\ waiterPc' = "publish"
  /\ UNCHANGED <<Done, done, pipe, Level, levelClosed, readerPc, consumerPc>>
  /\ UNCHANGED <<procVars, callVars, obsVars, histVars>>
  /\ UNCHANGED <<cmdVars, dispVars, trVars, parseVars, localVars, argsVars, uiVars>>

\* r.Done <- r.exitErr: a channel send, which needs room in the buffer or a
\* receiver already blocked on the channel.
CanSend(ch, cap, blockedReceivers) == Len(ch) < cap \/ blockedReceivers # {}

BlockedReceivers == {c \in Receivers : recvPc[c] = "blocked"}

\* close(r.done) placed before the send on r.Done.
WaiterPublishCloseFirst ==
  /\ waiterPc = "publish"
  /\ done' = TRUE
  /\ waiterPc' = "close"
  /\ UNCHANGED <<exitErr, Done>>
  /\ UNCHANGED <<procVars, ioVars, callVars, obsVars, histVars>>
  /\ UNCHANGED <<cmdVars, dispVars, trVars, parseVars, localVars, argsVars, uiVars>>

WaiterPublish ==
  /\ waiterPc = "publish"
  /\ CanSend(Done, DoneCap, BlockedReceivers)
  /\ Done' = Append(Done, exitErr)
  /\ published' = published + 1
  /\ waiterPc' = "close"
  /\ UNCHANGED <<exitErr, done>>
  /\ UNCHANGED <<procVars, ioVars, callVars, obsVars>>
  /\ UNCHANGED <<produced, received, junk, levelCloses, lateSends, stopCalls,
                 stopResumed, qWrites, lastDrop>>
  /\ UNCHANGED <<cmdVars, dispVars, trVars, parseVars, localVars, argsVars, uiVars>>

\* The exit waiter closing r.Level as well.
WaiterCloseLevel ==
  /\ waiterPc = "close"
  /\ done' = TRUE
  /\ waiterPc' = "finished"
  /\ levelClosed' = TRUE
  /\ levelCloses' = levelCloses + 1
  /\ UNCHANGED <<exitErr, Done>>
  /\ UNCHANGED <<pipe, stderrClosed, Level, readerPc, consumerPc>>
  /\ UNCHANGED <<procVars, callVars, obsVars>>
  /\ UNCHANGED <<produced, received, junk, published, lateSends, stopCalls,
                 stopResumed, qWrites, lastDrop>>
  /\ UNCHANGED <<cmdVars, dispVars, trVars, parseVars, localVars, argsVars, uiVars>>

\* close(r.done)
WaiterClose ==
  /\ waiterPc = "close"
  /\ done' = TRUE
  /\ waiterPc' = "finished"
  /\ UNCHANGED <<exitErr, Done>>
  /\ UNCHANGED <<procVars, ioVars, callVars, obsVars, histVars>>
  /\ UNCHANGED <<cmdVars, dispVars, trVars, parseVars, localVars, argsVars, uiVars>>

exitWaiter == WaiterReap \/ WaiterPublish \/ WaiterClose

\* ------------------------------------------------- the reader goroutine
\* The select in parseStderr has a default case, so the send on r.Level is
\* attempted only if it can proceed at once.
HasDefaultMut == FALSE
HasDefault == TRUE

\* Outcome of `select { case r.Level <- val: default: }` on the queue.
PushLevelOldest(q, v) == IF Len(q) < LevelCap THEN Append(q, v) ELSE Append(Tail(q), v)
PushLevelFront(q, v) == IF Len(q) < LevelCap THEN <<v>> \o q ELSE q
PushLevel(q, v) == IF Len(q) < LevelCap THEN Append(q, v) ELSE q

\* One iteration of `for scanner.Scan()`: take the next line; if it matches
\* rmsPattern and ParseFloat accepts the capture, offer it to r.Level.
\* A line already buffered by the scanner is still delivered after the pipe
\* has been closed under it.
ScanLine ==
  /\ readerPc = "scan"
  /\ pipe # <<>>
  /\ pipe' = Tail(pipe)
  /\ LET line == Head(pipe) IN
       IF line.kind = "val"
         THEN /\ Len(Level) < LevelCap \/ HasDefault
              /\ Level' = PushLevel(Level, line.val)
              /\ lastDrop' = IF Level' = Append(Level, line.val) THEN lastDrop ELSE line.val
              /\ lateSends' = IF levelClosed THEN lateSends + 1 ELSE lateSends
         ELSE UNCHANGED <<Level, lastDrop, lateSends>>
  /\ UNCHANGED <<stderrClosed, levelClosed, readerPc, consumerPc>>
  /\ UNCHANGED <<procVars, doneVars, callVars, obsVars>>
  /\ UNCHANGED <<produced, received, junk, published, levelCloses, stopCalls,
                 stopResumed, qWrites>>
  /\ UNCHANGED <<cmdVars, dispVars, trVars, parseVars, localVars, argsVars, uiVars>>

\* scanner.Scan() returns false: end of file (ffmpeg gone and nothing left
\* to read) or a read on the pipe that cmd.Wait closed; lines still in the
\* pipe are then lost.  The deferred close(r.Level) runs.
ScanEnd ==
  /\ readerPc = "scan"
  /\ (pipe = <<>> /\ proc = "exited") \/ stderrClosed
  /\ readerPc' = "finished"
  /\ levelClosed' = TRUE
  /\ levelCloses' = levelCloses + 1
  /\ UNCHANGED <<pipe, stderrClosed, Level, consumerPc>>
  /\ UNCHANGED <<procVars, doneVars, callVars, obsVars>>
  /\ UNCHANGED <<produced, received, junk, published, lateSends, stopCalls,
                 stopResumed, qWrites, lastDrop>>
  /\ UNCHANGED <<cmdVars, dispVars, trVars, parseVars, localVars, argsVars, uiVars>>

parseStderr == ScanLine \/ ScanEnd

\* --------------------------------------------------------------- consumers
\* listenLevel, re-issued by Update after every levelMsg: receive one sample,
\* or stop listening once the channel is closed and drained.
listenLevel ==
  /\ consumerPc = "listening"
  /\ IF Level # <<>>
       THEN /\ received' = Append(received, Head(Level))
            /\ Level' = Tail(Level)
            /\ UNCHANGED consumerPc
       ELSE /\ levelClosed
            /\ consumerPc' = "closed"
            /\ UNCHANGED <<received, Level>>
  /\ UNCHANGED <<pipe, stderrClosed, levelClosed, readerPc>>
  /\ UNCHANGED <<procVars, doneVars, callVars, obsVars>>
  /\ UNCHANGED <<produced, junk, published, levelCloses, lateSends, stopCalls,
                 stopResumed, qWrites, lastDrop>>
  /\ UNCHANGED <<cmdVars, dispVars, trVars, parseVars, localVars, argsVars, uiVars>>

\* Recorder.Wait: block on <-r.done, then return r.exitErr.
WaitOnDone(c) ==
  /\ waitPc[c] = "blocked"
  /\ Done # <<>>
  /\ waitPc' = [waitPc EXCEPT ![c] = "returned"]
  /\ waitRes' = [waitRes EXCEPT ![c] = Head(Done)]
  /\ Done' = Tail(Done)
  /\ UNCHANGED <<exitErr, done, waiterPc, recvPc, recvRes>>
  /\ UNCHANGED <<procVars, ioVars, callVars, histVars>>
  /\ UNCHANGED <<cmdVars, dispVars, trVars, parseVars, localVars, argsVars, uiVars>>

WaitNoBlock(c) ==
  /\ waitPc[c] = "blocked"
  /\ waitPc' = [waitPc EXCEPT ![c] = "returned"]
  /\ waitRes' = [waitRes EXCEPT ![c] = exitErr]
  /\ UNCHANGED <<recvPc, recvRes>>
  /\ UNCHANGED <<procVars, ioVars, doneVars, callVars, histVars>>
  /\ UNCHANGED <<cmdVars, dispVars, trVars, parseVars, localVars, argsVars, uiVars>>

Wait(c) ==
  /\ waitPc[c] = "blocked"
  /\ done
  /\ waitPc' = [waitPc EXCEPT ![c] = "returned"]
  /\ waitRes' = [waitRes EXCEPT ![c] = exitErr]
  /\ UNCHANGED <<recvPc, recvRes>>
  /\ UNCHANGED <<procVars, ioVars, doneVars, callVars, histVars>>
  /\ UNCHANGED <<cmdVars, dispVars, trVars, parseVars, localVars, argsVars, uiVars>>

\* listenDone / the --no-tui path: err := <-rec.Done.
listenDone(c) ==
  /\ recvPc[c] = "blocked"
  /\ Done # <<>>
  /\ recvRes' = [recvRes EXCEPT ![c] = Head(Done)]
  /\ Done' = Tail(Done)
  /\ recvPc' = [recvPc EXCEPT ![c] = "got"]
  /\ UNCHANGED <<exitErr, done, waiterPc, waitPc, waitRes>>
  /\ UNCHANGED <<procVars, ioVars, callVars, histVars>>
  /\ UNCHANGED <<cmdVars, dispVars, trVars, parseVars, localVars, argsVars, uiVars>>

\* ---------------------------------------------------------- specifications
\* Spec: control and completion, with a short diagnostic stream.
Next ==
  \/ EmitLine(MaxLinesCtl) \/ ProcQuit \/ ProcFail
  \/ Pause \/ StopResume \/ StopWrite \/ StopClose
  \/ WaiterReap \/ WaiterPublish \/ WaiterClose
  \/ ScanLine \/ ScanEnd \/ listenLevel
  \/ \E c \in Waiters : Wait(c)
  \/ \E c \in Receivers : listenDone(c)

Spec == Init /\ [][Next]_vars

\* SpecLevel: telemetry, with a stream long enough to fill the sample queue.
NextLevel ==
  \/ EmitLine(MaxLines) \/ ProcFail
  \/ WaiterReap \/ WaiterPublish \/ WaiterClose
  \/ ScanLine \/ ScanEnd \/ listenLevel

SpecLevel == Init /\ [][NextLevel]_vars

\* SpecExit: the two goroutines of Start under the Go scheduler, which keeps
\* running a goroutine that can take a step.  Nothing is assumed about the
\* process or about the consumer of Level, and nobody calls Wait or
\* receives from Done, which is the hardest case for the exit waiter's send.
ExitInit ==
  /\ StartedInit /\ NoObservers
  /\ CmdIdle /\ DispIdle /\ TrIdle /\ OthersIdle

SpecExit ==
  ExitInit /\ [][NextLevel]_vars /\ WF_vars(exitWaiter) /\ WF_vars(parseStderr)

\* ===================================================== device resolution
\* Names are sequences of characters, so that the quoting done by the
\* error messages is visible.
DQ == "\""
BS == "\\"
NameA == <<"a">>
NameQ == <<"a", DQ>>
NameB == <<"b">>
RawR == <<"r">>
DefaultName == <<"d", "e", "f", "a", "u", "l", "t">>
NoName == <<>>

MaxMembers == 2

AliasNames == {NameA, NameQ, NameB}
GroupNames == {NameA, NameB}
MemberNames == {NameA, NameQ}
Raws == {RawR, NameB}
MemberLists == UNION {[1..n -> MemberNames] : n \in 0..MaxMembers}

\* sort.Strings on the names above: byte order, "a" < "a\"" < "b".
NameOrder == <<NameA, NameQ, NameB>>
SortNames(S) == SelectSeq(NameOrder, LAMBDA n : n \in S)

\* Config: Devices and DeviceGroups are maps, Record.Device a string.
Configs ==
  {[Devices |-> d, DeviceGroups |-> g, RecordDevice |-> r] :
     d \in UNION {[D -> Raws] : D \in SUBSET AliasNames},
     g \in UNION {[G -> MemberLists] : G \in SUBSET GroupNames},
     r \in {NoName, NameA}}

\* strconv.Quote, as applied by the %q verb: the string between double
\* quotes, with every double quote and backslash preceded by a backslash.
RECURSIVE QuoteChars(_)
QuoteChars(s) ==
  IF s = <<>> THEN <<>>
  ELSE (IF Head(s) \in {DQ, BS} THEN <<BS, Head(s)>> ELSE <<Head(s)>>)
       \o QuoteChars(Tail(s))

Quote(s) == <<DQ>> \o QuoteChars(s) \o <<DQ>>

\* strings.Contains
Contains(text, sub) ==
  \E i \in 0..(Len(text) - Len(sub)) : SubSeq(text, i + 1, i + Len(sub)) = sub

NoErr == <<>>

\* fmt.Errorf("device group %q references unknown alias %q", name, alias);
\* the fixed words of a message are one element each.
ErrUnknownAlias(name, alias) ==
  <<"device group ">> \o Quote(name) \o <<" references unknown alias ">> \o Quote(alias)

\* The loop over a group's aliases, which prepends instead of appending.
RECURSIVE ResolveGroupPrepend(_, _, _, _)
ResolveGroupPrepend(c, name, aliases, devices) ==
  IF aliases = <<>> THEN [devices |-> devices, err |-> NoErr]
  ELSE IF Head(aliases) \notin DOMAIN c.Devices
    THEN [devices |-> <<>>, err |-> ErrUnknownAlias(name, Head(aliases))]
    ELSE ResolveGroupPrepend(c, name, Tail(aliases),
                             <<c.Devices[Head(aliases)]>> \o devices)

\* The loop over a group's aliases, which passes over an unknown alias.
RECURSIVE ResolveGroupSkip(_, _, _, _)
ResolveGroupSkip(c, name, aliases, devices) ==
  IF aliases = <<>> THEN [devices |-> devices, err |-> NoErr]
  ELSE IF Head(aliases) \notin DOMAIN c.Devices
    THEN ResolveGroupSkip(c, name, Tail(aliases), devices)
    ELSE ResolveGroupSkip(c, name, Tail(aliases),
                          Append(devices, c.Devices[Head(aliases)]))

\* `for _, alias := range aliases` of ResolveDevice: stop at the first alias
\* missing from Devices, else append its raw name.
RECURSIVE ResolveGroup(_, _, _, _)
ResolveGroup(c, name, aliases, devices) ==
  IF aliases = <<>> THEN [devices |-> devices, err |-> NoErr]
  ELSE IF Head(aliases) \notin DOMAIN c.Devices
    THEN [devices |-> <<>>, err |-> ErrUnknownAlias(name, Head(aliases))]
    ELSE ResolveGroup(c, name, Tail(aliases),
                      Append(devices, c.Devices[Head(aliases)]))

\* ResolveDevice with the alias lookup ahead of the group lookup.
ResolveDeviceAliasFirst(c, name) ==
  IF name = NoName THEN [devices |-> <<DefaultName>>, err |-> NoErr]
  ELSE IF name \in DOMAIN c.Devices
    THEN [devices |-> <<c.Devices[name]>>, err |-> NoErr]
  ELSE IF name \in DOMAIN c.DeviceGroups
    THEN ResolveGroup(c, name, c.DeviceGroups[name], <<>>)
  ELSE [devices |-> <<name>>, err |-> NoErr]

ResolveDevice(c, name) ==
  IF name = NoName THEN [devices |-> <<DefaultName>>, err |-> NoErr]
  ELSE IF name \in DOMAIN c.DeviceGroups
    THEN ResolveGroup(c, name, c.DeviceGroups[name], <<>>)
  ELSE IF name \in DOMAIN c.Devices
    THEN [devices |-> <<c.Devices[name]>>, err |-> NoErr]
  ELSE [devices |-> <<name>>, err |-> NoErr]

\* ---------------------------------------------------- the record picker
\* record.ListDevices: one microphone without description and one monitor.
SystemDevices ==
  << [Name |-> RawR, Description |-> NoName, IsMonitor |-> FALSE],
     [Name |-> <<"m">>, Description |-> <<"M">>, IsMonitor |-> TRUE] >>

Item(label, kind, devices) == [label |-> label, kind |-> kind, devices |-> devices]

\* The raw names of those members that are aliases; the others are passed
\* over (`if raw, ok := m.config.Devices[alias]; ok`).
ResolveKnown(c, members) ==
  LET known == SelectSeq(members, LAMBDA a : a \in DOMAIN c.Devices)
  IN  [i \in 1..Len(known) |-> c.Devices[known[i]]]

\* 1. the configured default, looked up as alias, then group, then raw name.
DefaultItems(c) ==
  LET def == c.RecordDevice IN
  IF def = NoName THEN <<>>
  ELSE IF def \in DOMAIN c.Devices
    THEN <<Item(def, "default", <<c.Devices[def]>>)>>
  ELSE IF def \in DOMAIN c.DeviceGroups
    THEN LET resolved == ResolveKnown(c, c.DeviceGroups[def])
         IN  IF resolved # <<>> THEN <<Item(def, "default", resolved)>> ELSE <<>>
  ELSE <<Item(def, "default", <<def>>)>>

\* 2. groups in sorted order, except the default and those left empty.
RECURSIVE GroupItems(_, _)
GroupItems(c, names) ==
  IF names = <<>> THEN <<>>
  ELSE LET gName == Head(names)
           resolved == ResolveKnown(c, c.DeviceGroups[gName])
       IN  (IF gName # c.RecordDevice /\ resolved # <<>>
              THEN <<Item(gName, "group", resolved)>> ELSE <<>>)
           \o GroupItems(c, Tail(names))

\* 3. aliases in sorted order, except the default.
AliasItems(c) ==
  LET aliases == SelectSeq(SortNames(DOMAIN c.Devices),
                           LAMBDA a : a # c.RecordDevice)
  IN  [i \in 1..Len(aliases) |-> Item(aliases[i], "alias", <<c.Devices[aliases[i]]>>)]

DeviceLabel(d) == IF d.Description = NoName THEN d.Name ELSE d.Description

\* 4. source devices that no alias covers; SystemDevices has one such
\* device at most, which sort.Slice leaves in place.
DeviceItems(c, devices) ==
  LET aliased == {c.Devices[a] : a \in DOMAIN c.Devices}
      rawDevs == SelectSeq(devices,
                   LAMBDA d : ~d.IsMonitor /\ d.Name \notin aliased
                              /\ DeviceLabel(d) # c.RecordDevice)
  IN  [i \in 1..Len(rawDevs) |-> Item(DeviceLabel(rawDevs[i]), "device", <<rawDevs[i].Name>>)]

buildItems(c, devices) ==
  DefaultItems(c) \o GroupItems(c, SortNames(DOMAIN c.DeviceGroups))
  \o AliasItems(c) \o DeviceItems(c, devices)

RECURSIVE dedupFrom(_, _)
dedupFrom(ss, out) ==
  IF ss = <<>> THEN out
  ELSE dedupFrom(Tail(ss),
                 IF \E i \in 1..Len(out) : out[i] = Head(ss) THEN out
                 ELSE Append(out, Head(ss)))

dedup(ss) == dedupFrom(ss, <<>>)

\* hotkeyIndex: "1" -> 0, ..., "9" -> 8, "0" -> 9.
Hotkeys == <<"1", "2", "3", "4", "5", "6", "7", "8", "9", "0">>
Keys == {"up", "down", "esc", "enter"} \cup {Hotkeys[i] : i \in 1..Len(Hotkeys)}
hotkeyIndex(key) == CHOOSE i \in 0..(Len(Hotkeys) - 1) : Hotkeys[i + 1] = key

\* ---------------------------------------------------- the record command
\* One invocation: the configuration, whether --device was given and with
\* which value, and --no-tui.  Without the flag rDevice has its default "".
DeviceArgs == {NoName, NameA, NameB, RawR}

RecordInputs ==
  {i \in [cfg : Configs, flagChanged : BOOLEAN, rNoTUI : BOOLEAN,
          rDevice : DeviceArgs] : i.flagChanged \/ i.rDevice = NoName}

NoRes == [devices |-> <<>>, err |-> NoErr]
NoItem == Item(NoName, "none", <<>>)

\* pc: "start", "pick" (picker waiting for a key), "resolved" (devices
\* chosen), "skipped", "failed", "panic", "started" (record.Start called).
RecordCmdStart ==
  [pc |-> "start", via |-> "none", deviceName |-> NoName, res |-> NoRes,
   items |-> <<>>, cursor |-> 0, item |-> NoItem,
   devices |-> <<>>, err |-> NoErr, optsDevice |-> NoName]

CmdInit ==
  /\ RecorderInit /\ DispIdle /\ TrIdle /\ OthersIdle
  /\ rIn \in RecordInputs
  /\ rOut = RecordCmdStart

UsesPicker == ~rIn.flagChanged /\ ~rIn.rNoTUI

\* fmt.Errorf("failed to resolve device %q: %w", deviceName, err)
ErrResolve(deviceName, err) ==
  <<"failed to resolve device ">> \o Quote(deviceName) \o <<": ">> \o err

\* The else branch of runRecord: name from the flag, else from the
\* configuration, else "default"; then cfg.ResolveDevice.
ResolveStep ==
  /\ rOut.pc = "start" /\ ~UsesPicker
  /\ LET n1 == IF rIn.rDevice # NoName THEN rIn.rDevice ELSE rIn.cfg.RecordDevice
         deviceName == IF n1 = NoName THEN DefaultName ELSE n1
         res == ResolveDevice(rIn.cfg, deviceName)
     IN  rOut' = [rOut EXCEPT
                    !.via = "resolve", !.deviceName = deviceName, !.res = res,
                    !.pc = IF res.err # NoErr THEN "failed" ELSE "resolved",
                    !.err = IF res.err # NoErr THEN ErrResolve(deviceName, res.err)
                            ELSE NoErr,
                    !.devices = res.devices]
  /\ UNCHANGED <<rIn, recVars, dispVars, trVars, parseVars, localVars, argsVars, uiVars>>

\* devicesLoadedMsg: build the items; with none the picker quits as skipped.
PickerLoad ==
  /\ rOut.pc = "start" /\ UsesPicker
  /\ LET items == buildItems(rIn.cfg, SystemDevices)
     IN  rOut' = [rOut EXCEPT !.via = "picker", !.items = items,
                              !.pc = IF items = <<>> THEN "skipped" ELSE "pick"]
  /\ UNCHANGED <<rIn, recVars, dispVars, trVars, parseVars, localVars, argsVars, uiVars>>

\* finishSingle(idx), idx counted from 0, followed by the return to
\* runRecord with result.Devices.
finishSingle(idx) ==
  LET item == rOut.items[idx + 1]
  IN  [rOut EXCEPT !.item = item, !.devices = dedup(item.devices), !.pc = "resolved"]

\* handleKey in state RPPick with nothing selected: move the cursor, give
\* up, take the item under the cursor, or take an item by its hotkey.
PickerKey(key) ==
  /\ rOut.pc = "pick"
  /\ rOut' =
       CASE key = "up" ->
              IF rOut.cursor > 0 THEN [rOut EXCEPT !.cursor = @ - 1] ELSE rOut
         [] key = "down" ->
              IF rOut.cursor < Len(rOut.items) - 1
                THEN [rOut EXCEPT !.cursor = @ + 1] ELSE rOut
         [] key = "esc" -> [rOut EXCEPT !.pc = "skipped"]
         [] key = "enter" -> finishSingle(rOut.cursor)
         [] OTHER ->
              IF hotkeyIndex(key) < Len(rOut.items)
                THEN finishSingle(hotkeyIndex(key)) ELSE rOut
  /\ UNCHANGED <<rIn, recVars, dispVars, trVars, parseVars, localVars, argsVars, uiVars>>

\* opts := record.RecordOpts{Device: devices[0], ...}; record.Start(opts).
\* Indexing an empty slice panics.
StartRecording ==
  /\ rOut.pc = "resolved"
  /\ rOut' = IF rOut.devices = <<>>
               THEN [rOut EXCEPT !.pc = "panic"]
               ELSE [rOut EXCEPT !.pc = "started", !.optsDevice = rOut.devices[1]]
  /\ UNCHANGED <<rIn, recVars, dispVars, trVars, parseVars, localVars, argsVars, uiVars>>

NextCmd ==
  \/ ResolveStep
  \/ PickerLoad
  \/ \E key \in Keys : PickerKey(key)
  \/ StartRecording

SpecCmd == CmdInit /\ [][NextCmd]_vars

\* ======================================================= cloud backends
\* The option flags, in the order validateOpts tests them.
Flags == <<"diarize", "smart-format", "punctuate", "filler-words", "numerals">>
FlagSet == {Flags[i] : i \in 1..Len(Flags)}

\* fmt.Errorf("%s does not support --<flag>", backendName)
ErrUnsupported(backendName, flag) == <<backendName, " does not support --", flag>>

\* validateOpts returning nil whatever is requested.
validateOptsNone(backendName, opts, supports) == NoErr

\* validateOpts testing the flags from numerals back to diarize.
validateOptsReversed(backendName, opts, supports) ==
  IF opts["numerals"] /\ ~supports["numerals"]
    THEN ErrUnsupported(backendName, "numerals")
  ELSE IF opts["filler-words"] /\ ~supports["filler-words"]
    THEN ErrUnsupported(backendName, "filler-words")
  ELSE IF opts["punctuate"] /\ ~supports["punctuate"]
    THEN ErrUnsupported(backendName, "punctuate")
  ELSE IF opts["smart-format"] /\ ~supports["smart-format"]
    THEN ErrUnsupported(backendName, "smart-format")
  ELSE IF opts["diarize"] /\ ~supports["diarize"]
    THEN ErrUnsupported(backendName, "diarize")
  ELSE NoErr

validateOpts(backendName, opts, supports) ==
  IF opts["diarize"] /\ ~supports["diarize"]
    THEN ErrUnsupported(backendName, "diarize")
  ELSE IF opts["smart-format"] /\ ~supports["smart-format"]
    THEN ErrUnsupported(backendName, "smart-format")
  ELSE IF opts["punctuate"] /\ ~supports["punctuate"]
    THEN ErrUnsupported(backendName, "punctuate")
  ELSE IF opts["filler-words"] /\ ~supports["filler-words"]
    THEN ErrUnsupported(backendName, "filler-words")
  ELSE IF opts["numerals"] /\ ~supports["numerals"]
    THEN ErrUnsupported(backendName, "numerals")
  ELSE NoErr

CloudBackends == {"deepgram", "openai", "mistral"}

\* The support arguments each backend's Transcribe passes to validateOpts.
Capability(backend) ==
  [f \in FlagSet |-> backend = "deepgram"]

\* How the backend spells itself in its key error.
KeyLabel(backend) ==
  CASE backend = "deepgram" -> "deepgram"
    [] backend = "openai" -> "OpenAI"
    [] backend = "mistral" -> "Mistral"

ErrNoKey(backend) == <<KeyLabel(backend), " API key not configured">>

\* What the HTTP exchange would give: a transport error, a non-200 status,
\* a 200 with a body the parser rejects, a 200 with a transcript.
HTTPOutcomes == {"neterr", "status", "garbled", "ok"}

\* One call: the backend and its key, the options requested and whether
\* the audio file can be opened; `supports` is what a direct call of
\* validateOpts is given.
TranscribeInputs ==
  [backend : CloudBackends, apiKey : {"", "k"}, opts : [FlagSet -> BOOLEAN],
   supports : [FlagSet -> BOOLEAN], fileOK : BOOLEAN]

TrInit ==
  /\ RecorderInit /\ CmdIdle /\ DispIdle /\ OthersIdle
  /\ tIn \in TranscribeInputs
  /\ tOut = [pc |-> "start", err |-> NoErr, httpCalls |-> 0, opened |-> FALSE]

\* validateOpts(backend, opts, supports...) called on its own.
ValidateCall ==
  /\ tOut.pc = "start"
  /\ tOut' = [tOut EXCEPT !.pc = "validated",
                          !.err = validateOpts(tIn.backend, tIn.opts, tIn.supports)]
  /\ UNCHANGED <<tIn, recVars, cmdVars, dispVars, parseVars, localVars, argsVars, uiVars>>

\* Deepgram.Transcribe, OpenAI.Transcribe, Mistral.Transcribe: key check,
\* validateOpts with the backend's own capabilities, opening the file, one
\* HTTP request, status check, parsing.
Transcribe(srv) ==
  /\ tOut.pc = "start"
  /\ LET verr == validateOpts(tIn.backend, tIn.opts, Capability(tIn.backend))
         res(err, requests, opened) ==
           [pc |-> "transcribed", err |-> err, httpCalls |-> requests, opened |-> opened]
     IN  tOut' =
           IF tIn.apiKey = "" THEN res(ErrNoKey(tIn.backend), 0, FALSE)
           ELSE IF verr # NoErr THEN res(verr, 0, FALSE)
           ELSE IF ~tIn.fileOK THEN res(<<"failed to open audio file">>, 0, FALSE)
           ELSE CASE srv = "neterr" -> res(<<tIn.backend, " request failed">>, 1, TRUE)
                  [] srv = "status" -> res(<<tIn.backend, " API error">>, 1, TRUE)
                  [] srv = "garbled" -> res(<<"failed to parse response">>, 1, TRUE)
                  [] srv = "ok" -> res(NoErr, 1, TRUE)
  /\ UNCHANGED <<tIn, recVars, cmdVars, dispVars, parseVars, localVars, argsVars, uiVars>>

NextTr ==
  \/ ValidateCall
  \/ \E srv \in HTTPOutcomes : Transcribe(srv)

SpecTr == TrInit /\ [][NextTr]_vars

\* ========================================================= the dispatcher
\* Executables that exec.LookPath may find, and the binaries a
\* configuration may name.
Executables == {"whisper-cli", "whisper", "whisperx", "ffmpeg"}
ConfigBinaries == {"", "whisperx", "/opt/whisper-cli"}

\* whisperBinaries: the names DetectWhisper looks for, in priority order.
whisperBinaries ==
  << [name |-> "whisper-cli", variant |-> "variantWhisperCPP"],
     [name |-> "whisper", variant |-> "variantWhisper"],
     [name |-> "whisperx", variant |-> "variantWhisperX"] >>

\* detectVariant: by the substring the base name of the binary contains.
detectVariant(binary) ==
  IF binary \in {"whisper-cli", "/opt/whisper-cli"} THEN "variantWhisperCPP"
  ELSE IF binary = "whisperx" THEN "variantWhisperX"
  ELSE IF binary = "ffmpeg" THEN "variantFFmpegWhisper"
  ELSE "variantWhisper"

\* Whisper.Name
WhisperName(variant) ==
  CASE variant = "variantWhisperCPP" -> "whisper-cpp"
    [] variant = "variantWhisperX" -> "whisperx"
    [] variant = "variantFFmpegWhisper" -> "ffmpeg-whisper"
    [] OTHER -> "whisper"

\* A backend instance: what Name() returns, and the binary or key it holds.
LocalBackend(binary, variant) ==
  [name |-> WhisperName(variant), binary |-> binary, apiKey |-> ""]
CloudBackend(name, key) == [name |-> name, binary |-> "", apiKey |-> key]
NoBackend == [name |-> "", binary |-> "", apiKey |-> ""]

\* What a constructor call yields, with the scans it ran on the way: "keys"
\* for the API-key scan, "local" for DetectWhisper.
Built(backend, scans) == [backend |-> backend, err |-> NoErr, scans |-> scans]
Failed(err, scans) == [backend |-> NoBackend, err |-> err, scans |-> scans]

\* DetectWhisper: the first of whisperBinaries on PATH, else ffmpeg if it is
\* on PATH and lists the whisper filter.
DetectWhisper(in) ==
  LET onPath == {i \in 1..Len(whisperBinaries) : whisperBinaries[i].name \in in.path}
  IN  IF onPath # {}
        THEN LET b == whisperBinaries[CHOOSE i \in onPath : \A j \in onPath : i <= j]
             IN  [found |-> TRUE, w |-> LocalBackend(b.name, b.variant)]
      ELSE IF "ffmpeg" \in in.path /\ in.ffmpegFilter
        THEN [found |-> TRUE, w |-> LocalBackend("ffmpeg", "variantFFmpegWhisper")]
      ELSE [found |-> FALSE, w |-> NoBackend]

ErrKey(name) == <<name, " API key not configured">>
ErrUnknownBackend(name) == <<"unknown backend: ", name>>
ErrNoneAvailable ==
  <<"no transcription backend available. Set an API key (DEEPGRAM_API_KEY, OPENAI_API_KEY, MISTRAL_API_KEY) or install whisper locally">>

newBackend(in, name) ==
  CASE name = "whisper" ->
         IF DetectWhisper(in).found THEN Built(DetectWhisper(in).w, {"local"})
         ELSE LET binary == IF in.whisperBinary = "" THEN "whisper" ELSE in.whisperBinary
              IN  Built(LocalBackend(binary, detectVariant(binary)), {"local"})
    [] name = "whisper-cpp" ->
         Built(LocalBackend("whisper-cli", detectVariant("whisper-cli")), {})
    [] name = "whisperx" ->
         Built(LocalBackend("whisperx", detectVariant("whisperx")), {})
    [] name = "ffmpeg-whisper" ->
         Built(LocalBackend("ffmpeg", "variantFFmpegWhisper"), {})
    [] name \in CloudBackends ->
         IF in.keys[name] = "" THEN Failed(ErrKey(name), {})
         ELSE Built(CloudBackend(name, in.keys[name]), {})
    [] OTHER -> Failed(ErrUnknownBackend(name), {})

\* The scan with the OpenAI key tested ahead of the Deepgram key.
AutoDetectOpenAIFirst(in) ==
  IF in.keys["openai"] # "" THEN Built(CloudBackend("openai", in.keys["openai"]), {"keys"})
  ELSE IF in.keys["deepgram"] # ""
    THEN Built(CloudBackend("deepgram", in.keys["deepgram"]), {"keys"})
  ELSE IF in.keys["mistral"] # ""
    THEN Built(CloudBackend("mistral", in.keys["mistral"]), {"keys"})
  ELSE IF DetectWhisper(in).found THEN Built(DetectWhisper(in).w, {"keys", "local"})
  ELSE Failed(ErrNoneAvailable, {"keys", "local"})

\* The rest of NewDispatcher: the keys in fixed order, then DetectWhisper.
AutoDetect(in) ==
  IF in.keys["deepgram"] # ""
    THEN Built(CloudBackend("deepgram", in.keys["deepgram"]), {"keys"})
  ELSE IF in.keys["openai"] # ""
    THEN Built(CloudBackend("openai", in.keys["openai"]), {"keys"})
  ELSE IF in.keys["mistral"] # ""
    THEN Built(CloudBackend("mistral", in.keys["mistral"]), {"keys"})
  ELSE IF DetectWhisper(in).found THEN Built(DetectWhisper(in).w, {"keys", "local"})
  ELSE Failed(ErrNoneAvailable, {"keys", "local"})

BackendName(in) == IF in.override # "" THEN in.override ELSE in.defaultBackend

\* NewDispatcher going on to the scan when the named backend fails.
NewDispatcherFallback(in) ==
  IF BackendName(in) # "" /\ newBackend(in, BackendName(in)).err = NoErr
    THEN newBackend(in, BackendName(in))
    ELSE AutoDetect(in)

NewDispatcher(in) ==
  IF BackendName(in) # "" THEN newBackend(in, BackendName(in)) ELSE AutoDetect(in)

\* One construction: the override, the configuration, and the machine.
Overrides ==
  {"", "whisper", "whisper-cpp", "whisperx", "ffmpeg-whisper",
   "deepgram", "openai", "mistral", "bogus"}
DefaultBackends == {"", "whisper", "openai"}

DispatchInputs ==
  [override : Overrides, defaultBackend : DefaultBackends,
   keys : [CloudBackends -> {"", "k"}], whisperBinary : ConfigBinaries,
   path : SUBSET Executables, ffmpegFilter : BOOLEAN]

DispInit ==
  /\ RecorderInit /\ CmdIdle /\ TrIdle /\ OthersIdle
  /\ dIn \in DispatchInputs
  /\ dOut = [pc |-> "start", backend |-> NoBackend, err |-> NoErr, scans |-> {}]

Dispatch ==
  /\ dOut.pc = "start"
  /\ LET r == NewDispatcher(dIn)
     IN  dOut' = [pc |-> "done", backend |-> r.backend, err |-> r.err, scans |-> r.scans]
  /\ UNCHANGED <<dIn, recVars, cmdVars, trVars, parseVars, localVars, argsVars, uiVars>>

NextDisp == Dispatch

SpecDisp == DispInit /\ [][NextDisp]_vars

\* ======================================================= result parsers
\* A float64 number of seconds is kept as whole seconds and milliseconds.
T(sec, msec) == [s |-> sec, ms |-> msec]
Zero == T(0, 0)

MaxSegs == 2

Seqs(S, n) == UNION {[1..k -> S] : k \in 0..n}

\* strings.TrimSpace on sequences of characters.
Space == " "
RECURSIVE TrimLeft(_)
TrimLeft(t) == IF t # <<>> /\ Head(t) = Space THEN TrimLeft(Tail(t)) ELSE t
RECURSIVE TrimRight(_)
TrimRight(t) ==
  IF t # <<>> /\ t[Len(t)] = Space THEN TrimRight(SubSeq(t, 1, Len(t) - 1)) ELSE t
TrimSpace(t) == TrimRight(TrimLeft(t))

\* strconv for the small numbers that occur (fmt's %d).
Digits == <<"0", "1", "2", "3", "4", "5", "6", "7", "8", "9">>
RECURSIVE Itoa(_)
Itoa(n) == IF n < 10 THEN <<Digits[n + 1]>> ELSE Itoa(n \div 10) \o <<Digits[(n % 10) + 1]>>

\* Segment and Result; an empty Speaker is the absent speaker.
Segment(start, end, text, speaker) ==
  [Start |-> start, End |-> end, Text |-> text, Speaker |-> speaker]
Result(text, segments, duration) ==
  [Text |-> text, Segments |-> segments, Duration |-> duration]
NoResult == Result(<<>>, <<>>, Zero)

Parsed(r) == [result |-> r, err |-> NoErr]
ParseFailed(err) == [result |-> NoResult, err |-> err]

\* What the backends print.  A document has a schema, may fail to decode as
\* a whole (ok), and carries a top-level transcript, a duration and records;
\* a field missing from the JSON decodes to its zero value.  A record of
\* the NDJSON schema may also be a blank line or a line that does not
\* decode.  An integer field the JSON may omit is a sequence of length 0 or 1.
Doc(schema, ok, text, duration, records) ==
  [schema |-> schema, ok |-> ok, text |-> text, duration |-> duration,
   records |-> records]
Rec(kind, start, end, text, speaker) ==
  [kind |-> kind, start |-> start, end |-> end, text |-> text, speaker |-> speaker]

TopTexts == {<<>>, <<" ", "x", "y">>}
SegTexts == {<<"x">>, <<" ">>, <<" ", "y">>}
Durations == {Zero, T(4, 0)}

\* start/end in seconds, in millisecond offsets, as "HH:MM:SS.mmm" fields.
FloatSpans == {<<Zero, T(1, 500)>>, <<T(1, 500), T(3723, 250)>>}
OffsetSpans == {<<0, 1500>>, <<1500, 3723250>>}
StampSpans ==
  {<< <<0, 0, T(0, 0)>>, <<0, 0, T(1, 500)>> >>,
   << <<0, 0, T(1, 500)>>, <<1, 2, T(3, 250)>> >>,
   << <<0, T(0, 0)>>, <<0, T(2, 0)>> >>}

DeepgramRecs ==
  {Rec("rec", sp[1], sp[2], t, k) :
     sp \in FloatSpans, t \in {<<"x">>, <<" ", "y">>}, k \in {<<>>, <<0>>, <<1>>}}
FloatRecs == {Rec("rec", sp[1], sp[2], t, <<>>) : sp \in FloatSpans, t \in SegTexts}
OffsetRecs == {Rec("rec", sp[1], sp[2], t, <<>>) : sp \in OffsetSpans, t \in SegTexts}
StampRecs ==
  {Rec("rec", sp[1], sp[2], t, <<>>) : sp \in StampSpans, t \in {<<"x">>, <<" ">>}}
  \cup {Rec("blank", Zero, Zero, <<>>, <<>>), Rec("bad", Zero, Zero, <<>>, <<>>)}

Schemas == {"deepgram", "openai", "mistral", "whisper", "whisper-cpp", "ffmpeg-whisper"}
LocalSchemas == {"whisper", "whisper-cpp", "ffmpeg-whisper"}

RecsOf(schema) ==
  CASE schema = "deepgram" -> DeepgramRecs
    [] schema \in {"openai", "mistral", "whisper"} -> FloatRecs
    [] schema = "whisper-cpp" -> OffsetRecs
    [] schema = "ffmpeg-whisper" -> StampRecs

\* Which top-level fields a schema has.
HasText(schema) == schema \in {"deepgram", "openai", "mistral", "whisper"}
HasDuration(schema) == schema \in {"deepgram", "openai"}

DocsUpTo(sch, n) ==
  {Doc(sch, TRUE, t, d, r) :
     t \in (IF HasText(sch) THEN TopTexts ELSE {<<>>}),
     d \in (IF HasDuration(sch) THEN Durations ELSE {Zero}),
     r \in Seqs(RecsOf(sch), n)}
  \cup (IF sch = "ffmpeg-whisper" THEN {} ELSE {Doc(sch, FALSE, <<>>, Zero, <<>>)})

DocsOf(sch) == DocsUpTo(sch, MaxSegs)

Docs == UNION {DocsOf(sch) : sch \in Schemas}

\* End of the last segment.
LastEndFirst(segments) == segments[1].End
LastEnd(segments) == segments[Len(segments)].End

\* Duration taken from the last segment when there is one.
WithLastEnd(text, segments) ==
  Result(text, segments, IF segments # <<>> THEN LastEnd(segments) ELSE Zero)

\* strings.Builder loop: the texts joined by single spaces.
RECURSIVE JoinTexts(_)
JoinTexts(segments) ==
  IF segments = <<>> THEN <<>>
  ELSE IF Len(segments) = 1 THEN segments[1].Text
  ELSE segments[1].Text \o <<Space>> \o JoinTexts(Tail(segments))

\* An int field of the response struct: 0 when the JSON omits it.
IntField(opt) == IF opt = <<>> THEN 0 ELSE opt[1]

\* fmt.Sprintf("Speaker %d", u.Speaker)
SpeakerLabel(n) == <<"Speaker ">> \o Itoa(n)

\* Deepgram.parseResponse
DeepgramParse(doc, diarize) ==
  IF ~doc.ok THEN ParseFailed(<<"failed to parse deepgram response">>)
  ELSE Parsed(Result(doc.text,
         [i \in 1..Len(doc.records) |->
            LET u == doc.records[i]
            IN  Segment(u.start, u.end, u.text,
                        IF diarize THEN SpeakerLabel(IntField(u.speaker)) ELSE <<>>)],
         doc.duration))

\* OpenAI.parseVerboseResponse
OpenAIParse(doc) ==
  IF ~doc.ok THEN ParseFailed(<<"failed to parse openai response">>)
  ELSE Parsed(Result(doc.text,
         [i \in 1..Len(doc.records) |->
            Segment(doc.records[i].start, doc.records[i].end, doc.records[i].text, <<>>)],
         doc.duration))

\* Mistral.parseResponse
MistralParse(doc) ==
  IF ~doc.ok THEN ParseFailed(<<"failed to parse mistral response">>)
  ELSE Parsed(WithLastEnd(doc.text,
         [i \in 1..Len(doc.records) |->
            Segment(doc.records[i].start, doc.records[i].end, doc.records[i].text, <<>>)]))

\* float64(seg.Offsets.From) / 1000.0
OffsetSeconds(off) == T(off \div 1000, off % 1000)

\* parseWhisperCPPOutput: records with empty trimmed text are passed over.
parseWhisperCPPOutput(records) ==
  LET kept == SelectSeq(records, LAMBDA r : TrimSpace(r.text) # <<>>)
      segments == [i \in 1..Len(kept) |->
                     Segment(OffsetSeconds(kept[i].start), OffsetSeconds(kept[i].end),
                             TrimSpace(kept[i].text), <<>>)]
  IN  WithLastEnd(JoinTexts(segments), segments)

\* Whisper.parseOutput: the whisper-cpp schema if there is a transcription
\* array, else the text and segments of whisper and whisperx.
parseOutput(doc) ==
  IF ~doc.ok THEN ParseFailed(<<"failed to parse whisper JSON">>)
  ELSE IF doc.schema = "whisper-cpp" /\ doc.records # <<>>
    THEN Parsed(parseWhisperCPPOutput(doc.records))
  ELSE LET recs == IF doc.schema = "whisper" THEN doc.records ELSE <<>>
           segments == [i \in 1..Len(recs) |->
                          Segment(recs[i].start, recs[i].end, TrimSpace(recs[i].text), <<>>)]
           text == IF TrimSpace(doc.text) = <<>> /\ segments # <<>>
                     THEN JoinTexts(segments) ELSE TrimSpace(doc.text)
       IN  Parsed(WithLastEnd(text, segments))

\* parseTimestamp: three colon-separated fields, else zero.
parseTimestamp(ts) ==
  IF Len(ts) = 3 THEN T(ts[1] * 3600 + ts[2] * 60 + ts[3].s, ts[3].ms) ELSE Zero

\* Whisper.parseFFmpegWhisperOutput: line by line; blank lines, lines that
\* do not decode and records with empty trimmed text are passed over.
parseFFmpegWhisperOutput(doc) ==
  LET kept == SelectSeq(doc.records,
                LAMBDA r : r.kind = "rec" /\ TrimSpace(r.text) # <<>>)
      segments == [i \in 1..Len(kept) |->
                     Segment(parseTimestamp(kept[i].start), parseTimestamp(kept[i].end),
                             TrimSpace(kept[i].text), <<>>)]
  IN  Parsed(WithLastEnd(JoinTexts(segments), segments))

\* The parser each backend applies to what it received.
ParseDoc(doc, diarize) ==
  CASE doc.schema = "deepgram" -> DeepgramParse(doc, diarize)
    [] doc.schema = "openai" -> OpenAIParse(doc)
    [] doc.schema = "mistral" -> MistralParse(doc)
    [] doc.schema \in {"whisper", "whisper-cpp"} -> parseOutput(doc)
    [] doc.schema = "ffmpeg-whisper" -> parseFFmpegWhisperOutput(doc)

\* Only Deepgram accepts --diarize (validateOpts).
ParseInputs ==
  {i \in [doc : Docs, diarize : BOOLEAN] : i.diarize => i.doc.schema = "deepgram"}

ParseStart ==
  [pc |-> "start", result |-> NoResult, err |-> NoErr, format |-> "none",
   rendered |-> <<>>]

ParseInit ==
  /\ RecorderInit /\ CmdIdle /\ DispIdle /\ TrIdle /\ LocalIdle /\ ArgsIdle /\ UiIdle
  /\ pIn \in ParseInputs
  /\ pOut = ParseStart

Parse ==
  /\ pOut.pc = "start"
  /\ LET r == ParseDoc(pIn.doc, pIn.diarize)
     IN  pOut' = [pOut EXCEPT !.pc = IF r.err = NoErr THEN "parsed" ELSE "failed",
                              !.result = r.result, !.err = r.err]
  /\ UNCHANGED <<pIn, recVars, cmdVars, dispVars, trVars, localVars, argsVars, uiVars>>

\* ------------------------------------------------------ result formatter
\* "%02d" and "%03d"
RECURSIVE Pad(_, _)
Pad(chars, width) == IF Len(chars) < width THEN Pad(<<"0">> \o chars, width) ELSE chars

\* The float64 arithmetic of srtTime and vttTime.  A non-negative float64
\* is kept exactly, as the binary numeral bits (most significant digit
\* first) with sh binary places: its value is bits * 2^(-sh).
MantBits == 53
SpareBits == 64

RECURSIVE Bin(_)
Bin(n) == IF n = 0 THEN <<>> ELSE Bin(n \div 2) \o <<n % 2>>

RECURSIVE Val(_)
Val(b) == IF b = <<>> THEN 0 ELSE 2 * Val(SubSeq(b, 1, Len(b) - 1)) + b[Len(b)]

Zeros(n) == [i \in 1..n |-> 0]
PadTo(b, w) == Zeros(w - Len(b)) \o b

\* without the leading zeros
Strip(b) ==
  IF \A i \in 1..Len(b) : b[i] = 0 THEN <<>>
  ELSE LET first == CHOOSE i \in 1..Len(b) : b[i] = 1 /\ \A j \in 1..(i - 1) : b[j] = 0
       IN  SubSeq(b, first, Len(b))

\* the numeral plus one
Inc(b) ==
  IF \A i \in 1..Len(b) : b[i] = 1 THEN <<1>> \o Zeros(Len(b))
  ELSE LET last == CHOOSE i \in 1..Len(b) : b[i] = 0 /\ \A j \in (i + 1)..Len(b) : b[j] = 1
       IN  [i \in 1..Len(b) |-> IF i < last THEN b[i] ELSE IF i = last THEN 1 ELSE 0]

\* long division of a numeral by a small number, Limb digits at a time:
\* quotient and remainder
Limb == 15

RECURSIVE DivStep(_, _, _, _)
DivStep(b, d, rem, quo) ==
  IF b = <<>> THEN [q |-> quo, r |-> rem]
  ELSE LET k == IF Len(b) % Limb = 0 THEN Limb ELSE Len(b) % Limb
           a == rem * 2^k + Val(SubSeq(b, 1, k))
       IN  DivStep(SubSeq(b, k + 1, Len(b)), d, a % d, quo \o PadTo(Bin(a \div d), k))

DivSmall(b, d) == DivStep(b, d, 0, <<>>)

\* a numeral times a small number, Limb digits at a time from the right
RECURSIVE MulStep(_, _, _)
MulStep(b, c, carry) ==
  IF b = <<>> THEN Bin(carry)
  ELSE LET k == IF Len(b) < Limb THEN Len(b) ELSE Limb
           v == Val(SubSeq(b, Len(b) - k + 1, Len(b))) * c + carry
       IN  MulStep(SubSeq(b, 1, Len(b) - k), c, v \div 2^k) \o PadTo(Bin(v % 2^k), k)

MulSmall(b, c) == MulStep(b, c, 0)

\* the rounding of an exact result to the 53 digits of a float64, to nearest
\* and to even on a tie
RoundNearestEven(b) ==
  LET sig == Strip(b)
      top == SubSeq(sig, 1, MantBits)
      rest == SubSeq(sig, MantBits + 1, Len(sig))
      up == /\ rest[1] = 1
            /\ \/ \E i \in 2..Len(rest) : rest[i] = 1
               \/ top[MantBits] = 1
  IN  IF Len(sig) <= MantBits THEN sig
      ELSE (IF up THEN Inc(top) ELSE top) \o Zeros(Len(rest))

\* the float64 a decimal number of seconds with three places is read as: the
\* nearest one to n / 1000
Float64OfMillis(n) ==
  IF n = 0 THEN [bits |-> <<>>, sh |-> 0]
  ELSE
  LET wide == Strip(DivSmall(Bin(n) \o Zeros(SpareBits), 1000).q)
      places == SpareBits - (Len(wide) - MantBits)
      d == DivSmall(Bin(n) \o Zeros(places), 1000)
      quo == Strip(d.q)
      up == 2 * d.r > 1000 \/ (2 * d.r = 1000 /\ quo[MantBits] = 1)
  IN  [bits |-> IF up THEN Inc(quo) ELSE quo, sh |-> places]

\* int(x): the digits before the binary point
IntOf(x) ==
  IF Len(x.bits) <= x.sh THEN 0 ELSE Val(SubSeq(x.bits, 1, Len(x.bits) - x.sh))

\* x - float64(int(x)): the digits after the binary point; the difference
\* of two float64 this close is itself a float64, nothing is rounded.
FracOf(x) ==
  [bits |-> IF Len(x.bits) <= x.sh THEN x.bits
            ELSE SubSeq(x.bits, Len(x.bits) - x.sh + 1, Len(x.bits)),
   sh |-> x.sh]

\* x * 1000, rounded to a float64
Times1000(x) == [bits |-> RoundNearestEven(MulSmall(x.bits, 1000)), sh |-> x.sh]

\* the float64 a time of whole milliseconds is held as
Seconds(t) == Float64OfMillis(1000 * t.s + t.ms)

\* int((seconds - float64(int(seconds))) * 1000)
Millis(seconds) == IntOf(Times1000(FracOf(seconds)))

\* srtTime and vttTime: hours, minutes, seconds of the whole seconds, then
\* the separator and the milliseconds.
clock(t, sep) ==
  LET seconds == Seconds(t)
      whole == IntOf(seconds)
  IN  Pad(Itoa(whole \div 3600), 2) \o <<":">> \o Pad(Itoa((whole % 3600) \div 60), 2)
      \o <<":">> \o Pad(Itoa(whole % 60), 2) \o <<sep>> \o Pad(Itoa(Millis(seconds)), 3)
srtTime(t) == clock(t, ",")
vttTime(t) == clock(t, ".")

\* The rendering is a sequence of lines, each ended by a newline.
IndexLine(i) == [kind |-> "index", text |-> Itoa(i)]
TimeLine(from, to) == [kind |-> "time", text |-> from \o <<" --> ">> \o to]
TextLine(text) == [kind |-> "text", text |-> text]
BlankLine == [kind |-> "blank", text |-> <<>>]

\* Result.segments handing on the empty list.
segmentsNoFallback(r) == r.Segments

\* Result.segments: the segments, else one segment over the whole result.
segments(r) ==
  IF Len(r.Segments) > 0 THEN r.Segments
  ELSE <<Segment(Zero, r.Duration, r.Text, <<>>)>>

\* strings.TrimRight(b.String(), "\n") + "\n": empty lines at the end go.
RECURSIVE TrimNewlines(_)
TrimNewlines(lines) ==
  IF lines # <<>> /\ lines[Len(lines)].text = <<>>
    THEN TrimNewlines(SubSeq(lines, 1, Len(lines) - 1)) ELSE lines

RECURSIVE srtEntries(_, _)
srtEntries(segs, i) ==
  IF segs = <<>> THEN <<>>
  ELSE << IndexLine(i),
          TimeLine(srtTime(Head(segs).Start), srtTime(Head(segs).End)),
          TextLine(TrimSpace(Head(segs).Text)),
          BlankLine >>
       \o srtEntries(Tail(segs), i + 1)

\* formatSRT with the entries numbered from 0.
formatSRTFromZero(r) == TrimNewlines(srtEntries(segments(r), 0))

formatSRT(r) == TrimNewlines(srtEntries(segments(r), 1))

\* formatVTT's loop: a time line, the trimmed text and an empty line each.
RECURSIVE vttEntries(_)
vttEntries(segs) ==
  IF segs = <<>> THEN <<>>
  ELSE << TimeLine(vttTime(Head(segs).Start), vttTime(Head(segs).End)),
          TextLine(TrimSpace(Head(segs).Text)),
          BlankLine >>
       \o vttEntries(Tail(segs))

formatVTT(r) ==
  TrimNewlines(<<[kind |-> "header", text |-> <<"WEBVTT">>], BlankLine>>
               \o vttEntries(segments(r)))

\* formatJSON: the Result's fields, segments and duration left out when
\* empty or zero (omitempty); a Segment has start, end and text.
formatJSON(r) ==
  << [kind |-> "json", text |-> r.Text,
      segments |-> [i \in 1..Len(r.Segments) |->
                      [start |-> r.Segments[i].Start, end |-> r.Segments[i].End,
                       text |-> r.Segments[i].Text]],
      duration |-> IF r.Duration = Zero THEN <<>> ELSE <<r.Duration>>] >>

Formats == {"text", "json", "srt", "vtt"}

\* Result.Format
Format(r, f) ==
  CASE f = "json" -> formatJSON(r)
    [] f = "srt" -> formatSRT(r)
    [] f = "vtt" -> formatVTT(r)
    [] OTHER -> <<TextLine(r.Text)>>

FormatResult(f) ==
  /\ pOut.pc = "parsed"
  /\ pOut' = [pOut EXCEPT !.pc = "formatted", !.format = f,
                          !.rendered = Format(pOut.result, f)]
  /\ UNCHANGED <<pIn, recVars, cmdVars, dispVars, trVars, localVars, argsVars, uiVars>>

NextParse ==
  \/ Parse
  \/ \E f \in Formats : FormatResult(f)

SpecParse == ParseInit /\ [][NextParse]_vars

\* ------------------------------------------------------------------ claims
\* C1: whenever Stop runs on a paused recorder, the process has been resumed
\* and r.paused cleared before the 'q' byte is written, and the control
\* stream is closed only after that write has been made.
T_C1 ==
  /\ callerPc \in {"stop_write", "stop_close"} => ~paused /\ proc # "suspended"
  /\ callerPc = "stop_close" => qWrites = stopCalls
  /\ stdinClosed => qWrites >= 1

W_C1 == stopResumed /\ callerPc = "stop_close" /\ stdinQ > 0 /\ ~stdinClosed

\* C2: once Stop has been called the process is never suspended again, so a
\* Pause call made after Stop does not suspend it.
CE_C2 == stopCalls > 0 => proc # "suspended"

\* C3: Wait returns only after the capture process has exited, and returns
\* that process's exit error; Stop returning does not by itself make it so.
T_C3 ==
  \A c \in Waiters :
    waitPc[c] = "returned" => proc = "exited" /\ waitRes[c] = ErrOf(exitCode)

W_C3 ==
  /\ stopCalls > 0 /\ callerPc = "idle"
  /\ \E c \in Waiters : waitPc[c] = "returned" /\ waitRes[c] = "nil"
  /\ \E c \in Waiters : waitPc[c] = "blocked"

\* Stop has returned and ffmpeg is still running: reachable, which is the
\* "only requests shutdown" half of C3.
StopReturnedStillRunning == stopCalls > 0 /\ callerPc = "idle" /\ proc = "running"

\* C4: the exit waiter sends the final error on Done exactly once, only after
\* the process has exited, and the send never has to wait for a receiver.
T_C4 ==
  /\ published <= 1
  /\ waiterPc = "publish" => proc = "exited" /\ Len(Done) < DoneCap
  /\ published = 1 <=> waiterPc \in {"close", "finished"}
  /\ \A i \in 1..Len(Done) : Done[i] = ErrOf(exitCode)
  /\ \A c \in Receivers : recvPc[c] = "got" => recvRes[c] = ErrOf(exitCode)

W_C4 ==
  /\ waiterPc = "finished" /\ published = 1 /\ Done = <<"nil">>
  /\ \A c \in Receivers : recvPc[c] = "blocked"

\* C5 as stated: once the process has exited and the exit waiter has run,
\* every caller still waiting, in Wait or on Done, can be released.
CE_C5 ==
  waiterPc = "finished" =>
    /\ \A c \in Waiters : waitPc[c] = "blocked" => ENABLED Wait(c)
    /\ \A c \in Receivers : recvPc[c] = "blocked" => ENABLED listenDone(c)

\* C5 amended: every caller of Wait can be released once the exit waiter has
\* run and all of them get the process's exit error; the value sent on Done
\* goes to at most one receiver.
T_C5 ==
  /\ waiterPc = "finished" => \A c \in Waiters : waitPc[c] = "blocked" => ENABLED Wait(c)
  /\ \A c \in Waiters : waitPc[c] = "returned" => waitRes[c] = ErrOf(exitCode)
  /\ Cardinality({c \in Receivers : recvPc[c] = "got"}) <= 1
  /\ \A c \in Receivers : recvPc[c] = "got" => recvRes[c] = ErrOf(exitCode)

W_C5 ==
  /\ \A c \in Waiters : waitPc[c] = "returned" /\ waitRes[c] = "err"
  /\ \E c \in Receivers : recvPc[c] = "got" /\ recvRes[c] = "err"
  /\ \E c \in Receivers : recvPc[c] = "blocked"

\* The reader is about to offer a sample to a full queue.
ReaderAtFullQueue ==
  /\ readerPc = "scan" /\ pipe # <<>> /\ Head(pipe).kind = "val"
  /\ Len(Level) = LevelCap

\* The step taken is an iteration of the reader's loop.
ReaderStepped == readerPc = "scan" /\ readerPc' = "scan" /\ pipe' = Tail(pipe)

\* C6: the reader never blocks on the sample queue: with a line to process
\* it can always take its step, and when the queue is full that step leaves
\* the queue full (one sample is dropped) and the reader back at the scan.
T_C6 ==
  /\ [](readerPc = "scan" /\ pipe # <<>> => ENABLED ScanLine)
  /\ [][ReaderAtFullQueue /\ ReaderStepped => Len(Level') = LevelCap /\ lastDrop' # lastDrop]_vars

W_C6 ==
  /\ lastDrop # 0 /\ Len(Level) = LevelCap /\ received = <<>>
  /\ readerPc = "scan" /\ pipe # <<>>

\* C7: the sample queue is closed exactly once, by the reader and only after
\* it has seen the end of the diagnostic stream, and nothing is sent on it
\* afterwards.
T_C7 ==
  /\ levelCloses <= 1
  /\ levelClosed <=> levelCloses = 1
  /\ levelClosed <=> readerPc = "finished"
  /\ lateSends = 0

W_C7 ==
  /\ levelClosed /\ levelCloses = 1 /\ readerPc = "finished"
  /\ waiterPc = "finished" /\ Len(received) > 0

\* C8 as stated: when the exit waiter has finished, it has closed the sample
\* queue.
CE_C8 == waiterPc = "finished" => levelClosed

\* C8 amended: the exit waiter publishes the final error on Done and then
\* closes r.done; it never closes the sample queue, which only the reader
\* closes, and once the waiter has reaped the process the reader is able to
\* see the end of its stream.
T_C8 ==
  /\ [](done => published = 1 /\ waiterPc = "finished")
  /\ [](waiterPc # "wait" /\ readerPc = "scan" => ENABLED ScanEnd)
  /\ [][levelClosed' # levelClosed => readerPc = "scan" /\ readerPc' = "finished"]_vars

W_C8 == waiterPc = "finished" /\ done /\ published = 1 /\ ~levelClosed /\ readerPc = "scan"

\* s is a subsequence of t.
RECURSIVE IsSubseq(_, _)
IsSubseq(s, t) ==
  IF s = <<>> THEN TRUE
  ELSE IF t = <<>> THEN FALSE
  ELSE IF Head(s) = Head(t) THEN IsSubseq(Tail(s), Tail(t))
  ELSE IsSubseq(s, Tail(t))

\* C9: what the consumer has received, followed by what is still queued, is
\* a subsequence of what the diagnostic stream produced: order is preserved
\* and no produced sample is delivered twice.
T_C9 ==
  /\ IsSubseq(received \o Level, produced)
  /\ \A i, j \in 1..Len(received) : i # j => received[i] # received[j]

W_C9 ==
  /\ Len(received) >= 2 /\ lastDrop # 0
  /\ Len(received) + Len(Level) < Len(produced)
  /\ junk > 0

\* C10 as stated: a sample arriving at a full queue is kept and the oldest
\* queued sample is discarded.
CE_C10 ==
  [][ReaderAtFullQueue /\ ReaderStepped => Level' = Append(Tail(Level), Head(pipe).val)]_vars

\* C10 amended: a sample arriving at a full queue is the one discarded; the
\* queue, its oldest sample included, is left as it was.
T_C10 ==
  [][ReaderAtFullQueue /\ ReaderStepped => Level' = Level /\ lastDrop' = Head(pipe).val]_vars

W_C10 ==
  /\ Len(Level) = LevelCap /\ lastDrop > Level[LevelCap]
  /\ Head(Level) = Head(produced)
  /\ \A i \in 1..Len(Level) : Level[i] # lastDrop

\* C11: Start leaves two goroutines, the exit waiter and the stderr reader;
\* once the process has exited both of them finish, also when nobody
\* receives from Level or Done and nobody calls Wait.
T_C11 ==
  /\ [](waiterPc \in {"wait", "publish", "close", "finished"})
  /\ [](readerPc \in {"scan", "finished"})
  /\ (proc = "exited") ~> (waiterPc = "finished" /\ readerPc = "finished")

\* Both goroutines finished although the queue was full, no sample was ever
\* taken from it, and the exit status still sits unread in Done.
W_C11 ==
  /\ waiterPc = "finished" /\ readerPc = "finished"
  /\ \A c \in Receivers : recvPc[c] = "idle"
  /\ \A c \in Waiters : waitPc[c] = "idle"
  /\ Done = <<"err">> /\ received = <<>>
  /\ Len(Level) = LevelCap /\ lastDrop # 0

\* ------------------------------------------------- claims on resolution
\* The name handed to cfg.ResolveDevice names a group of the configuration.
ResolvedGroup ==
  /\ rOut.via = "resolve"
  /\ rOut.deviceName \in DOMAIN rIn.cfg.DeviceGroups

Members == rIn.cfg.DeviceGroups[rOut.deviceName]

Missing(c, members) == {i \in 1..Len(members) : members[i] \notin DOMAIN c.Devices}

FirstMissing(c, members) ==
  members[CHOOSE i \in Missing(c, members) : \A j \in Missing(c, members) : i <= j]

\* The group whose membership produced the devices chosen, NoName if none.
SelectedGroup ==
  IF rOut.via = "resolve"
    THEN (IF ResolvedGroup THEN rOut.deviceName ELSE NoName)
  ELSE IF \/ rOut.item.kind = "group"
          \/ /\ rOut.item.kind = "default"
             /\ rOut.item.label \notin DOMAIN rIn.cfg.Devices
             /\ rOut.item.label \in DOMAIN rIn.cfg.DeviceGroups
    THEN rOut.item.label
  ELSE NoName

\* C12: ResolveDevice never returns an empty device list without an error
\* (an empty group is an error), so the command never goes on towards
\* record.Start with zero devices.
CE_C12 ==
  (rOut.via = "resolve" /\ rOut.res.err = NoErr) =>
     (rOut.res.devices # <<>> /\ rOut.pc # "panic")

\* C13: on every path (flag, configured default, picker) a group with an
\* alias missing from Devices ends the command with an error; record.Start
\* is never reached with the remaining members of such a group.
CE_C13 ==
  rOut.pc \in {"resolved", "started"} =>
     \/ SelectedGroup = NoName
     \/ Missing(rIn.cfg, rIn.cfg.DeviceGroups[SelectedGroup]) = {}

T_C15 ==
  rOut.via = "resolve" =>
    LET c == rIn.cfg
        name == rOut.deviceName
    IN  IF name \in DOMAIN c.DeviceGroups
          THEN IF Missing(c, c.DeviceGroups[name]) # {}
                 THEN rOut.res.err # NoErr /\ rOut.res.devices = <<>>
                 ELSE /\ rOut.res.err = NoErr
                      /\ rOut.res.devices =
                           [i \in 1..Len(c.DeviceGroups[name]) |->
                              c.Devices[c.DeviceGroups[name][i]]]
        ELSE IF name \in DOMAIN c.Devices
          THEN rOut.res = [devices |-> <<c.Devices[name]>>, err |-> NoErr]
        ELSE rOut.res = [devices |-> <<name>>, err |-> NoErr]

\* The name b is a group, an alias and the raw name behind alias a; it was
\* resolved as the group, to a name that is itself an alias.
W_C15 ==
  /\ ResolvedGroup /\ rOut.deviceName = NameB
  /\ NameB \in DOMAIN rIn.cfg.Devices /\ rIn.cfg.Devices[NameB] = RawR
  /\ Members = <<NameA>> /\ NameA \in DOMAIN rIn.cfg.Devices
  /\ rIn.cfg.Devices[NameA] = NameB
  /\ rOut.res.devices = <<NameB>>
  /\ rOut.pc = "started" /\ rOut.optsDevice = NameB

\* C16: resolving a group whose members are all defined returns one raw
\* name per member, the i-th being the raw name of the i-th alias.
T_C16 ==
  (ResolvedGroup /\ Missing(rIn.cfg, Members) = {}) =>
     /\ rOut.res.err = NoErr
     /\ Len(rOut.res.devices) = Len(Members)
     /\ \A i \in 1..Len(Members) : rOut.res.devices[i] = rIn.cfg.Devices[Members[i]]

\* Group <<a", a>> with different raw names was resolved in list order.
W_C16 ==
  /\ ResolvedGroup /\ Members = <<NameQ, NameA>>
  /\ Missing(rIn.cfg, Members) = {}
  /\ rIn.cfg.Devices[NameQ] = NameB /\ rIn.cfg.Devices[NameA] = RawR
  /\ rOut.res.devices = <<NameB, RawR>>

\* ------------------------------------------------ claims on the backends
Unsupported(opts, supports) == {i \in 1..Len(Flags) : opts[Flags[i]] /\ ~supports[Flags[i]]}

\* C17: a Transcribe call of a cloud backend with an empty key, or with an
\* option outside the backend's capabilities, fails and has issued no HTTP
\* request.
T_C17 ==
  (/\ tOut.pc = "transcribed"
   /\ \/ tIn.apiKey = ""
      \/ Unsupported(tIn.opts, Capability(tIn.backend)) # {}) =>
     (tOut.err # NoErr /\ tOut.httpCalls = 0)

\* OpenAI with a key, a readable file and --punctuate: refused, nothing sent.
W_C17 ==
  /\ tOut.pc = "transcribed" /\ tIn.backend = "openai"
  /\ tIn.apiKey # "" /\ tIn.fileOK
  /\ Unsupported(tIn.opts, Capability(tIn.backend)) = {3}
  /\ tOut.err = ErrUnsupported("openai", "punctuate")
  /\ tOut.httpCalls = 0

\* C18: validateOpts tests diarize, smart-format, punctuate, filler-words,
\* numerals in this order; with several unsupported flags requested the
\* error names the backend and the first of them in this order, and with
\* none there is no error.
T_C18 ==
  tOut.pc = "validated" =>
    LET u == Unsupported(tIn.opts, tIn.supports) IN
    IF u = {} THEN tOut.err = NoErr
    ELSE LET first == CHOOSE i \in u : \A j \in u : i <= j
         IN  tOut.err = <<tIn.backend, " does not support --", Flags[first]>>

\* Smart-format, filler-words and numerals unsupported and requested,
\* diarize requested and supported: the error names smart-format.
W_C18 ==
  /\ tOut.pc = "validated"
  /\ tIn.opts["diarize"] /\ tIn.supports["diarize"]
  /\ Unsupported(tIn.opts, tIn.supports) = {2, 4, 5}
  /\ tOut.err = <<tIn.backend, " does not support --", "smart-format">>

\* --------------------------------------------- claims on the dispatcher
LocalNames == {"whisper", "whisper-cpp", "whisperx", "ffmpeg-whisper"}
KnownNames == LocalNames \cup CloudBackends

\* Some local recognition executable can be found on the search path.
LocalOnPath ==
  \/ dIn.path \cap {"whisper-cli", "whisper", "whisperx"} # {}
  \/ "ffmpeg" \in dIn.path /\ dIn.ffmpegFilter

\* C19, as stated: with a (known) backend name given the dispatcher builds
\* exactly the backend of that name and runs no detection scan; a cloud
\* backend with an empty key is an 'API key not configured' error.
CE_C19 ==
  (dOut.pc = "done" /\ BackendName(dIn) \in KnownNames) =>
     /\ dOut.scans = {}
     /\ IF BackendName(dIn) \in CloudBackends /\ dIn.keys[BackendName(dIn)] = ""
          THEN dOut.err = ErrKey(BackendName(dIn)) /\ dOut.backend = NoBackend
          ELSE dOut.err = NoErr /\ dOut.backend.name = BackendName(dIn)

\* C19, amended: with a backend name given the API keys are never scanned.
\* The names whisper-cpp, whisperx, ffmpeg-whisper, deepgram, openai and
\* mistral build exactly that backend without any scan, a cloud backend
\* with an empty key failing with 'API key not configured' whatever else
\* is usable.  The name whisper runs the detection of local variants and
\* builds the variant found, else the configured binary, else "whisper".
\* Any other name is an error.
T_C19 ==
  (dOut.pc = "done" /\ BackendName(dIn) # "") =>
    LET name == BackendName(dIn) IN
    /\ "keys" \notin dOut.scans
    /\ name \in CloudBackends =>
         /\ dOut.scans = {}
         /\ IF dIn.keys[name] = ""
              THEN dOut.err = ErrKey(name) /\ dOut.backend = NoBackend
              ELSE dOut.err = NoErr /\ dOut.backend = CloudBackend(name, dIn.keys[name])
    /\ name \in LocalNames \ {"whisper"} =>
         dOut.scans = {} /\ dOut.err = NoErr /\ dOut.backend.name = name
    /\ name = "whisper" =>
         /\ dOut.scans = {"local"} /\ dOut.err = NoErr
         /\ dOut.backend.name \in LocalNames
         /\ "whisper-cli" \in dIn.path => dOut.backend.name = "whisper-cpp"
         /\ ~LocalOnPath =>
              dOut.backend.name =
                WhisperName(detectVariant(IF dIn.whisperBinary = "" THEN "whisper"
                                          ELSE dIn.whisperBinary))
    /\ name \notin KnownNames => dOut.err # NoErr /\ dOut.backend = NoBackend

\* --backend whisper with whisper-cli installed and every key configured:
\* the local detection ran and built the whisper-cpp backend.
W_C19 ==
  /\ dOut.pc = "done" /\ dIn.override = "whisper"
  /\ "whisper-cli" \in dIn.path
  /\ \A b \in CloudBackends : dIn.keys[b] # ""
  /\ dOut.backend.name = "whisper-cpp" /\ dOut.scans = {"local"}

\* C20: with no backend name given the dispatcher takes the first that
\* applies of: Deepgram key, OpenAI key, Mistral key, local executable on
\* the search path; a later one only if every earlier condition is false,
\* and an error if none applies.
T_C20 ==
  (dOut.pc = "done" /\ BackendName(dIn) = "") =>
    /\ dOut.backend.name = "deepgram" <=> dIn.keys["deepgram"] # ""
    /\ dOut.backend.name = "openai" <=>
         (dIn.keys["deepgram"] = "" /\ dIn.keys["openai"] # "")
    /\ dOut.backend.name = "mistral" <=>
         (dIn.keys["deepgram"] = "" /\ dIn.keys["openai"] = ""
          /\ dIn.keys["mistral"] # "")
    /\ dOut.backend.name \in LocalNames <=>
         ((\A b \in CloudBackends : dIn.keys[b] = "") /\ LocalOnPath)
    /\ dOut.err # NoErr <=>
         ((\A b \in CloudBackends : dIn.keys[b] = "") /\ ~LocalOnPath)
    /\ dOut.err # NoErr <=> dOut.backend = NoBackend

\* No name, no Deepgram key, OpenAI and Mistral keys, whisper installed:
\* OpenAI is chosen.
W_C20 ==
  /\ dOut.pc = "done" /\ BackendName(dIn) = ""
  /\ dIn.keys["deepgram"] = "" /\ dIn.keys["openai"] # "" /\ dIn.keys["mistral"] # ""
  /\ "whisper" \in dIn.path
  /\ dOut.backend = CloudBackend("openai", dIn.keys["openai"])

\* ------------------------------------------------- the local backend
\* Whisper.Transcribe, step by step: the checks and the temporary
\* directory, the conversion process of whisper-cpp, the recognition
\* process, and reading and parsing its output.  The caller may cancel the
\* context at any moment.  An error is the chain of its wrapped layers.
Variants == {"variantWhisperCPP", "variantWhisper", "variantWhisperX", "variantFFmpegWhisper"}

SchemaOf(variant) ==
  CASE variant = "variantWhisperCPP" -> "whisper-cpp"
    [] variant = "variantFFmpegWhisper" -> "ffmpeg-whisper"
    [] OTHER -> "whisper"

\* What the recognition process may have written: nothing decodable, or
\* at most one record.
LocalDocs(variant) == DocsUpTo(SchemaOf(variant), 1)

\* The options of one call: none of the flags, or one of them.
LocalOpts == {o \in [FlagSet -> BOOLEAN] : Cardinality({f \in FlagSet : o[f]}) <= 1}

\* The flags a local variant takes: --diarize, by whisperx only.
LocalCapability(variant) ==
  [f \in FlagSet |-> f = "diarize" /\ variant = "variantWhisperX"]

LocalInputsOf(variant) ==
  {i \in [variant : {variant}, opts : LocalOpts, onPath : BOOLEAN, audioExists : BOOLEAN,
          mkdirOk : BOOLEAN, isWav : BOOLEAN, convertOk : BOOLEAN,
          runOk : BOOLEAN, readOk : BOOLEAN, doc : LocalDocs(variant)] :
     /\ (~i.onPath \/ ~i.audioExists \/ ~i.mkdirOk) =>
          (i.isWav /\ i.convertOk /\ i.runOk /\ i.readOk)
     /\ (i.variant # "variantWhisperCPP" \/ i.isWav) => i.convertOk
     /\ ~i.runOk => i.readOk}

LocalInputs == UNION {LocalInputsOf(v) : v \in Variants}

ErrCanceled == <<"context canceled">>
ErrKilled == <<"signal: killed">>
ErrExit == <<"exit status 1">>
Wrap(msg, err) == <<msg>> \o err
ErrorsIs(err, target) == \E i \in 1..Len(err) : <<err[i]>> = target

LocalStart ==
  [pc |-> "start", err |-> NoErr, result |-> NoResult, tmp |-> "none",
   created |-> FALSE, cancelled |-> FALSE, killed |-> FALSE]

LocalInit ==
  /\ RecorderInit /\ CmdIdle /\ DispIdle /\ TrIdle /\ ParseIdle /\ ArgsIdle /\ UiIdle
  /\ lIn \in LocalInputs
  /\ lOut = LocalStart

\* The deferred os.RemoveAll(tmpDir) without the removal.
RemoveAllKept(tmp) == tmp

\* The deferred os.RemoveAll(tmpDir), run on every return once registered.
RemoveAll(tmp) == IF tmp = "exists" THEN "removed" ELSE tmp

Return(st, err, result) ==
  [st EXCEPT !.pc = "returned", !.err = err, !.result = result,
             !.tmp = RemoveAll(st.tmp)]

RunFailedMsg(variant) ==
  IF variant = "variantFFmpegWhisper" THEN "ffmpeg whisper filter failed"
  ELSE WhisperName(variant) \o " failed"

\* exec.Cmd.Start with a context that is already done returns ctx.Err().
StartRun(st) ==
  IF st.cancelled THEN Return(st, Wrap(RunFailedMsg(lIn.variant), ErrCanceled), NoResult)
  ELSE [st EXCEPT !.pc = "running"]

StartConvert(st) ==
  IF st.cancelled
    THEN Return(st, Wrap("failed to convert audio for whisper-cpp", ErrCanceled), NoResult)
    ELSE [st EXCEPT !.pc = "converting"]

\* Transcribe up to the start of the first process.
Begin ==
  /\ lOut.pc = "start"
  /\ lOut' =
       IF ~lIn.onPath THEN Return(lOut, <<"whisper binary not found on PATH">>, NoResult)
       ELSE IF ~lIn.audioExists THEN Return(lOut, <<"audio file not found">>, NoResult)
       ELSE IF ~lIn.mkdirOk THEN Return(lOut, <<"mkdtemp failed">>, NoResult)
       ELSE LET made == [lOut EXCEPT !.tmp = "exists", !.created = TRUE] IN
            IF lIn.variant = "variantWhisperCPP" /\ ~lIn.isWav
              THEN StartConvert(made) ELSE StartRun(made)
  /\ UNCHANGED <<lIn, recVars, cmdVars, dispVars, trVars, parseVars, argsVars, uiVars>>

\* convertToWav's cmd.Run returns: a killed process is an exit error.
ConvertExit ==
  /\ lOut.pc = "converting"
  /\ lOut' =
       IF lOut.killed
         THEN Return(lOut, Wrap("failed to convert audio for whisper-cpp", ErrKilled), NoResult)
       ELSE IF ~lIn.convertOk
         THEN Return(lOut, Wrap("failed to convert audio for whisper-cpp", ErrExit), NoResult)
       ELSE StartRun(lOut)
  /\ UNCHANGED <<lIn, recVars, cmdVars, dispVars, trVars, parseVars, argsVars, uiVars>>

\* The recognition process's cmd.Run returns; the output is read and parsed.
RunExit ==
  /\ lOut.pc = "running"
  /\ lOut' =
       IF lOut.killed
         THEN Return(lOut, Wrap(RunFailedMsg(lIn.variant), ErrKilled), NoResult)
       ELSE IF ~lIn.runOk
         THEN Return(lOut, Wrap(RunFailedMsg(lIn.variant), ErrExit), NoResult)
       ELSE IF ~lIn.readOk
         THEN Return(lOut, <<"failed to read output", "no such file">>, NoResult)
       ELSE LET r == IF lIn.variant = "variantFFmpegWhisper"
                       THEN parseFFmpegWhisperOutput(lIn.doc)
                       ELSE parseOutput(lIn.doc)
            IN  Return(lOut, r.err, r.result)
  /\ UNCHANGED <<lIn, recVars, cmdVars, dispVars, trVars, parseVars, argsVars, uiVars>>

\* The caller cancels the context; exec.CommandContext kills a process
\* that is running.
Cancel ==
  /\ lOut.pc \in {"start", "converting", "running"}
  /\ ~lOut.cancelled
  /\ lOut' = [lOut EXCEPT !.cancelled = TRUE,
                          !.killed = lOut.pc \in {"converting", "running"}]
  /\ UNCHANGED <<lIn, recVars, cmdVars, dispVars, trVars, parseVars, argsVars, uiVars>>

NextLocal == Begin \/ ConvertExit \/ RunExit \/ Cancel

SpecLocal == LocalInit /\ [][NextLocal]_vars

\* ------------------------------------------------- the encoder command
\* BuildFFmpegArgs and BuildFFmpegArgsMulti.  An argument is a string,
\* kept as the sequence of the pieces it is put together from.
MaxDevices == 3

DeviceNames == {<<"mic">>, <<":", "1">>, <<"-filter_complex">>, <<>>}
InputFormats == {"pulse", "avfoundation"}
RecordFormats == {"ogg", "wav"}

CodecForFormat(format) ==
  CASE format = "wav" -> "pcm_s16le"
    [] format = "flac" -> "flac"
    [] format = "mp3" -> "libmp3lame"
    [] OTHER -> "libopus"

\* ":" in front of an avfoundation device that has none.
InputDevice(inputFmt, device) ==
  IF inputFmt = "avfoundation" /\ ~(device # <<>> /\ Head(device) = ":")
    THEN <<":">> \o device ELSE device

VUFilter == "asetnsamples=n=480,astats=metadata=1:reset=1,ametadata=print:file=/dev/stderr"

\* -c:a, -ar, -ac, the bitrate of opus, the timestamp reset and the output.
OutputArgs(opts) ==
  << <<"-c:a">>, <<CodecForFormat(opts.Format)>>,
     <<"-ar">>, Itoa(opts.SampleRate), <<"-ac">>, Itoa(opts.Channels) >>
  \o (IF CodecForFormat(opts.Format) = "libopus" THEN << <<"-b:a">>, <<"64k">> >> ELSE <<>>)
  \o << <<"-output_ts_offset">>, <<"0">>, <<"-y">>, <<opts.OutputPath>> >>

BuildFFmpegArgs(opts) ==
  LET device == IF opts.Device = <<>> THEN <<"default">> ELSE opts.Device
  IN  << <<"-f">>, <<opts.InputFmt>>, <<"-i">>, InputDevice(opts.InputFmt, device),
         <<"-af">>, <<VUFilter>> >>
      \o OutputArgs(opts)

RECURSIVE InputArgs(_, _)
InputArgs(inputFmt, devices) ==
  IF devices = <<>> THEN <<>>
  ELSE << <<"-f">>, <<inputFmt>>, <<"-i">>, InputDevice(inputFmt, Head(devices)) >>
       \o InputArgs(inputFmt, Tail(devices))

\* inputLabels: "[0:a]" to "[n-1:a]".
RECURSIVE inputLabels(_)
inputLabels(n) ==
  IF n = 0 THEN <<>> ELSE inputLabels(n - 1) \o <<"[">> \o Itoa(n - 1) \o <<":a]">>

\* The mixing clause announcing one input less than it names.
filterComplexOneLess(n) ==
  inputLabels(n) \o <<"amix=inputs=">> \o Itoa(n - 1) \o <<":duration=longest">>
  \o <<",", VUFilter, "[a]">>

\* filterComplex: the labels, amix over n inputs, then the meter filters.
filterComplex(n) ==
  inputLabels(n) \o <<"amix=inputs=">> \o Itoa(n) \o <<":duration=longest">>
  \o <<",", VUFilter, "[a]">>

BuildFFmpegArgsMulti(opts) ==
  LET devices == opts.Devices IN
  IF Len(devices) = 0
    THEN [args |-> <<>>, err |-> <<"BuildFFmpegArgsMulti: no devices specified">>]
  ELSE IF Len(devices) = 1
    THEN [args |-> BuildFFmpegArgs([opts EXCEPT !.Device = devices[1]]), err |-> NoErr]
  ELSE [args |-> InputArgs(opts.InputFmt, devices)
                 \o << <<"-filter_complex">>, filterComplex(Len(devices)),
                       <<"-map">>, <<"[a]">> >>
                 \o OutputArgs(opts),
        err |-> NoErr]

RecordOpts ==
  [Devices : Seqs(DeviceNames, MaxDevices), Device : {<<>>},
   InputFmt : InputFormats, Format : RecordFormats,
   SampleRate : {48000}, Channels : {1, 2}, OutputPath : {"memo.ogg"}]

ArgsInit ==
  /\ RecorderInit /\ CmdIdle /\ DispIdle /\ TrIdle /\ ParseIdle /\ LocalIdle /\ UiIdle
  /\ aIn \in RecordOpts
  /\ aOut = [pc |-> "start", args |-> <<>>, err |-> NoErr]

Build ==
  /\ aOut.pc = "start"
  /\ LET r == BuildFFmpegArgsMulti(aIn)
     IN  aOut' = [pc |-> "built", args |-> r.args, err |-> r.err]
  /\ UNCHANGED <<aIn, recVars, cmdVars, dispVars, trVars, parseVars, localVars, uiVars>>

NextArgs == Build

SpecArgs == ArgsInit /\ [][NextArgs]_vars

\* ------------------------------------------------- the recording screen
\* tui.Model on top of one Recorder and its ffmpeg process.  Bubble Tea
\* hands the messages to Update one at a time; after tea.Quit was returned,
\* messages that are already queued are still handled until the program
\* leaves its loop.
MaxTicks == 2

TuiKeys == {"ctrl+c", "q", "Q", "p", " ", "d", "esc", "x"}

\* NewModel, with the recorder Start has returned.
TuiStart ==
  [pc |-> "running", state |-> "StateRecording", showPicker |-> FALSE,
   transcribe |-> FALSE, quit |-> FALSE, tick |-> 0, level |-> 0,
   paused |-> FALSE, proc |-> "running", stdinQ |-> 0, stdinClosed |-> FALSE,
   done |-> "none",
   lastKey |-> "", lastState |-> "StateRecording", lastPicker |-> FALSE,
   stops |-> 0, pausedAfterStop |-> FALSE, leftSaved |-> FALSE]

TuiInit ==
  /\ RecorderInit /\ BackendsIdle /\ OnbIdle /\ VuIdle /\ PickIdle /\ DevIdle
  /\ tui = TuiStart

\* Recorder.Pause on the recorder of the screen.
RecorderPause(m) ==
  IF m.paused
    THEN [m EXCEPT !.proc = Signal(m.proc, "SIGCONT"), !.paused = FALSE,
                   !.pausedAfterStop = m.pausedAfterStop \/ m.stops > 0]
    ELSE [m EXCEPT !.proc = Signal(m.proc, "SIGSTOP"), !.paused = TRUE,
                   !.pausedAfterStop = m.pausedAfterStop \/ m.stops > 0]

\* Recorder.Stop leaving a paused process suspended.
RecorderStopNoResume(m) ==
  [m EXCEPT !.stdinQ = IF m.stdinClosed \/ m.proc = "exited" THEN m.stdinQ ELSE m.stdinQ + 1,
            !.stdinClosed = TRUE,
            !.stops = IF m.stops < 2 THEN m.stops + 1 ELSE m.stops]

\* Recorder.Stop: resume if paused, write "q", close stdin.
RecorderStop(m) ==
  LET r == IF m.paused
             THEN [m EXCEPT !.proc = Signal(m.proc, "SIGCONT"), !.paused = FALSE]
             ELSE m
  IN  [r EXCEPT !.stdinQ = IF r.stdinClosed \/ r.proc = "exited" THEN r.stdinQ ELSE r.stdinQ + 1,
                !.stdinClosed = TRUE,
                !.stops = IF r.stops < 2 THEN r.stops + 1 ELSE r.stops]

\* The p/space branch toggling whatever the state is.
PauseKeyAnyState(m) ==
  IF m.state = "StateRecording"
    THEN RecorderPause([m EXCEPT !.state = "StatePaused"])
    ELSE RecorderPause([m EXCEPT !.state = "StateRecording"])

\* handleKey, the p/space branch.
PauseKey(m) ==
  IF m.state = "StateRecording"
    THEN RecorderPause([m EXCEPT !.state = "StatePaused"])
  ELSE IF m.state = "StatePaused"
    THEN RecorderPause([m EXCEPT !.state = "StateRecording"])
  ELSE m

\* Model.handleKey
handleKey(m, k) ==
  CASE k \in {"ctrl+c", "q"} ->
         [RecorderStop(m) EXCEPT !.state = "StateSaved", !.quit = TRUE]
    [] k = "Q" ->
         [RecorderStop(m) EXCEPT !.state = "StateSaved", !.transcribe = TRUE,
                                 !.quit = TRUE]
    [] k \in {"p", " "} -> PauseKey(m)
    [] k = "d" -> [m EXCEPT !.showPicker = TRUE]
    [] OTHER -> m

\* Model.updatePicker
updatePicker(m, k) ==
  IF k \in {"esc", "q"} THEN [m EXCEPT !.showPicker = FALSE] ELSE m

\* What the screen remembers of a step; the state never leaves StateSaved
\* unless leftSaved says so.
Noted(before, after) ==
  [after EXCEPT !.leftSaved =
     before.leftSaved \/ (before.state = "StateSaved" /\ after.state # "StateSaved")]

\* Update, tea.KeyMsg
KeyMsg(k) ==
  /\ tui.pc = "running"
  /\ LET m == [tui EXCEPT !.lastKey = k, !.lastState = tui.state,
                          !.lastPicker = tui.showPicker]
     IN  tui' = Noted(tui, IF tui.showPicker THEN updatePicker(m, k) ELSE handleKey(m, k))
  /\ UNCHANGED <<coreVars, onb, vu, pick, dev>>

\* Update, tickMsg
TickMsg ==
  /\ tui.pc = "running"
  /\ tui.tick < MaxTicks
  /\ tui.state = "StateRecording"
  /\ tui' = [tui EXCEPT !.tick = tui.tick + 1]
  /\ UNCHANGED <<coreVars, onb, vu, pick, dev>>

\* Update, levelMsg
LevelMsg ==
  /\ tui.pc = "running"
  /\ \E l \in {0, 1} : l # tui.level /\ tui' = [tui EXCEPT !.level = l]
  /\ UNCHANGED <<coreVars, onb, vu, pick, dev>>

\* Update, doneMsg: the exit waiter has sent on Done, listenDone received.
DoneMsg ==
  /\ tui.pc = "running"
  /\ tui.proc = "exited" /\ tui.done = "none"
  /\ tui' = Noted(tui, [tui EXCEPT !.done = "delivered", !.state = "StateSaved",
                                   !.quit = TRUE])
  /\ UNCHANGED <<coreVars, onb, vu, pick, dev>>

\* The program handles the quit message and leaves its loop.
QuitMsg ==
  /\ tui.pc = "running" /\ tui.quit
  /\ tui' = [tui EXCEPT !.pc = "exited"]
  /\ UNCHANGED <<coreVars, onb, vu, pick, dev>>

\* ffmpeg reads the "q" and exits.
CaptureQuit ==
  /\ tui.proc = "running" /\ tui.stdinQ > 0
  /\ tui' = [tui EXCEPT !.proc = "exited", !.stdinQ = tui.stdinQ - 1]
  /\ UNCHANGED <<coreVars, onb, vu, pick, dev>>

\* ffmpeg exits on its own (device lost, encoder error).
CaptureFail ==
  /\ tui.proc = "running"
  /\ tui' = [tui EXCEPT !.proc = "exited"]
  /\ UNCHANGED <<coreVars, onb, vu, pick, dev>>

NextTui ==
  \/ \E k \in TuiKeys : KeyMsg(k)
  \/ TickMsg \/ LevelMsg \/ DoneMsg \/ QuitMsg \/ CaptureQuit \/ CaptureFail

SpecTui == TuiInit /\ [][NextTui]_vars

\* ------------------------------------------------------- onboarding
\* RunOnboarding: the devices are loaded, one is picked, an alias may be
\* typed, the configuration is changed in Update and written by a command
\* whose result comes back as obSavedMsg.
MaxSources == 2
MaxAlias == 2

OnbKeys == {"ctrl+c", "up", "down", "enter", "esc", "a", " "}

OnbStart ==
  [pc |-> "running", state |-> "OBLoading", devices |-> 0, cursor |-> 0,
   aliasInput |-> <<>>, completed |-> FALSE, message |-> "", quit |-> FALSE,
   save |-> "none", recordDevice |-> <<>>, aliases |-> {}, result |-> FALSE]

OnbInit ==
  /\ RecorderInit /\ BackendsIdle /\ TuiIdle /\ VuIdle /\ PickIdle /\ DevIdle
  /\ onb = OnbStart

\* Update, devicesLoadedMsg with n source devices (none when ListDevices
\* failed).
DevicesLoaded ==
  /\ onb.pc = "running" /\ onb.state = "OBLoading"
  /\ \E n \in 0..MaxSources :
       onb' = IF n = 0
                THEN [onb EXCEPT !.devices = 0, !.message = "No input devices found.",
                                 !.completed = FALSE, !.state = "OBDone", !.quit = TRUE]
                ELSE [onb EXCEPT !.devices = n, !.state = "OBPickDevice"]
  /\ UNCHANGED <<coreVars, tui, vu, pick, dev>>

\* saveAndFinish: the configuration is changed and completed is set; the
\* write itself is left to the command.
saveAndFinish(m, useAlias) ==
  LET device == <<"d">> \o Itoa(m.cursor)
      alias == TrimSpace(m.aliasInput)
  IN  [m EXCEPT !.aliases = IF useAlias /\ alias # <<>> THEN m.aliases \cup {alias} ELSE m.aliases,
                !.recordDevice = IF useAlias /\ alias # <<>> THEN alias ELSE device,
                !.completed = TRUE, !.state = "OBDone",
                !.save = IF m.save = "none" THEN "pending" ELSE m.save]

handlePickDeviceKey(m, k) ==
  CASE k = "up" -> IF m.cursor > 0 THEN [m EXCEPT !.cursor = m.cursor - 1] ELSE m
    [] k = "down" -> IF m.cursor < m.devices - 1 THEN [m EXCEPT !.cursor = m.cursor + 1] ELSE m
    [] k = "enter" -> [m EXCEPT !.state = "OBAliasPrompt", !.aliasInput = <<>>, !.message = ""]
    [] k = "esc" -> [m EXCEPT !.completed = FALSE, !.state = "OBDone", !.quit = TRUE]
    [] OTHER -> m

handleAliasPromptKey(m, k) ==
  CASE k = "enter" -> saveAndFinish(m, TRUE)
    [] k = "esc" -> saveAndFinish(m, FALSE)
    [] k \in {"a", " "} ->
         IF Len(m.aliasInput) < MaxAlias
           THEN [m EXCEPT !.aliasInput = Append(m.aliasInput, k)] ELSE m
    [] OTHER -> m

\* onboardModel.handleKey
onbHandleKey(m, k) ==
  IF k = "ctrl+c" THEN [m EXCEPT !.completed = FALSE, !.quit = TRUE]
  ELSE IF m.state = "OBPickDevice" THEN handlePickDeviceKey(m, k)
  ELSE IF m.state = "OBAliasPrompt" THEN handleAliasPromptKey(m, k)
  ELSE m

OnbKey(k) ==
  /\ onb.pc = "running"
  /\ onb' = onbHandleKey(onb, k)
  /\ onb' # onb
  /\ UNCHANGED <<coreVars, tui, vu, pick, dev>>

\* The save command has run, cfg.SaveTo succeeded or failed, and Update
\* handles its obSavedMsg.
ObSaved ==
  /\ onb.pc = "running" /\ onb.save = "pending"
  /\ \E ok \in BOOLEAN :
       onb' = [onb EXCEPT !.save = IF ok THEN "ok" ELSE "err",
                          !.message = IF ok THEN onb.message ELSE "Error saving config",
                          !.quit = TRUE]
  /\ UNCHANGED <<coreVars, tui, vu, pick, dev>>

\* p.Run returns the final model and RunOnboarding its completed field.
OnbReturn ==
  /\ onb.pc = "running" /\ onb.quit
  /\ onb' = [onb EXCEPT !.pc = "returned", !.result = onb.completed]
  /\ UNCHANGED <<coreVars, tui, vu, pick, dev>>

NextOnb == DevicesLoaded \/ (\E k \in OnbKeys : OnbKey(k)) \/ ObSaved \/ OnbReturn

SpecOnb == OnbInit /\ [][NextOnb]_vars

\* ------------------------------------------- the device manager's preview
\* startVU and stopVU run in Update; each startVU spawns a goroutine that
\* starts ffmpeg, stores it in dm.vuProc and scans its stderr, looking at
\* its cancel channel once per line.  dm.vuProc is written by the
\* goroutines and read by Update with no synchronisation.
MaxStarts == 3

Previews == 1..MaxStarts

VuStart ==
  [pc |-> "loading", n |-> 0, vuProc |-> 0, vuCancel |-> 0,
   g |-> [i \in Previews |-> [pc |-> "idle", proc |-> "none", cancelled |-> FALSE]]]

VuInit ==
  /\ RecorderInit /\ BackendsIdle /\ TuiIdle /\ OnbIdle /\ PickIdle /\ DevIdle
  /\ vu = VuStart

\* DeviceManager.stopVU: close the cancel channel, kill and reap the
\* process dm.vuProc names.
stopVU(v) ==
  LET c == IF v.vuCancel # 0
             THEN [v EXCEPT !.g[v.vuCancel].cancelled = TRUE, !.vuCancel = 0]
             ELSE v
  IN  IF c.vuProc # 0
        THEN [c EXCEPT !.g[c.vuProc].proc = "exited", !.vuProc = 0]
        ELSE c

\* DeviceManager.startVU: stopVU, a new cancel channel, and the goroutine.
startVU(v) ==
  LET c == stopVU(v)
  IN  [c EXCEPT !.n = c.n + 1, !.vuCancel = c.n + 1, !.g[c.n + 1].pc = "spawned"]

\* Update, devicesLoadedMsg with devices.
VuDevicesLoaded ==
  /\ vu.pc = "loading"
  /\ vu' = [startVU(vu) EXCEPT !.pc = "browse"]
  /\ UNCHANGED <<coreVars, tui, onb, pick, dev>>

\* handleBrowseKey, up/down on a cursor that can move.
VuCursorMove ==
  /\ vu.pc = "browse" /\ vu.n < MaxStarts
  /\ vu' = startVU(vu)
  /\ UNCHANGED <<coreVars, tui, onb, pick, dev>>

\* handleBrowseKey, t: the preview stops for the test recording.
VuTest ==
  /\ vu.pc = "browse" /\ vu.n < MaxStarts
  /\ vu' = [stopVU(vu) EXCEPT !.pc = "test"]
  /\ UNCHANGED <<coreVars, tui, onb, pick, dev>>

\* The test is over (dmTestDoneMsg after playback, or ctrl+c).
VuTestDone ==
  /\ vu.pc = "test"
  /\ vu' = [startVU(vu) EXCEPT !.pc = "browse"]
  /\ UNCHANGED <<coreVars, tui, onb, pick, dev>>

\* handleBrowseKey, q
VuQuit ==
  /\ vu.pc = "browse"
  /\ vu' = [stopVU(vu) EXCEPT !.pc = "quit"]
  /\ UNCHANGED <<coreVars, tui, onb, pick, dev>>

\* The goroutine: cmd.Start, which may fail.
PreviewStart(i) ==
  /\ vu.g[i].pc = "spawned"
  /\ \/ vu' = [vu EXCEPT !.g[i].pc = "started", !.g[i].proc = "running"]
     \/ vu' = [vu EXCEPT !.g[i].pc = "done"]
  /\ UNCHANGED <<coreVars, tui, onb, pick, dev>>

\* The goroutine: dm.vuProc = cmd
PreviewPublish(i) ==
  /\ vu.g[i].pc = "started"
  /\ vu' = [vu EXCEPT !.g[i].pc = "scanning", !.vuProc = i]
  /\ UNCHANGED <<coreVars, tui, onb, pick, dev>>

\* The goroutine has scanned a line and finds its cancel channel closed:
\* it kills and reaps its process.
PreviewCancelled(i) ==
  /\ vu.g[i].pc = "scanning" /\ vu.g[i].proc = "running" /\ vu.g[i].cancelled
  /\ vu' = [vu EXCEPT !.g[i].pc = "done", !.g[i].proc = "exited"]
  /\ UNCHANGED <<coreVars, tui, onb, pick, dev>>

\* The goroutine: the scanner reaches the end of a dead process's stderr.
PreviewEof(i) ==
  /\ vu.g[i].pc = "scanning" /\ vu.g[i].proc = "exited"
  /\ vu' = [vu EXCEPT !.g[i].pc = "done"]
  /\ UNCHANGED <<coreVars, tui, onb, pick, dev>>

NextVu ==
  \/ VuDevicesLoaded \/ VuCursorMove \/ VuTest \/ VuTestDone \/ VuQuit
  \/ \E i \in Previews :
       PreviewStart(i) \/ PreviewPublish(i) \/ PreviewCancelled(i) \/ PreviewEof(i)

SpecVu == VuInit /\ [][NextVu]_vars

\* ------------------------------------------- the record picker's selection
\* Configurations as the device manager leaves them: groups are not empty,
\* their members are aliases, and no name is an alias and a group.
Range(f) == {f[i] : i \in DOMAIN f}

WellFormed(c) ==
  /\ DOMAIN c.Devices \cap DOMAIN c.DeviceGroups = {}
  /\ \A gName \in DOMAIN c.DeviceGroups :
       /\ c.DeviceGroups[gName] # <<>>
       /\ Range(c.DeviceGroups[gName]) \subseteq DOMAIN c.Devices

PickConfigs == {c \in Configs : WellFormed(c) /\ DOMAIN c.DeviceGroups # {}}

PickInit ==
  /\ RecorderInit /\ BackendsIdle /\ TuiIdle /\ OnbIdle /\ VuIdle /\ DevIdle
  /\ \E c \in PickConfigs :
       pick = [pc |-> "RPPick", config |-> c, items |-> buildItems(c, SystemDevices),
               cursor |-> 0, selected |-> {}]

\* recordPickerModel.groupMembersFor
groupMembersFor(m, item) ==
  IF item.label \in DOMAIN m.config.DeviceGroups
    THEN m.config.DeviceGroups[item.label] ELSE <<>>

\* recordPickerModel.toggleSelect; the indices count from 0.
toggleSelect(m, idx) ==
  IF idx >= Len(m.items) THEN m
  ELSE
  LET item == m.items[idx + 1]
      selecting == idx \notin m.selected
      toggled == IF selecting THEN m.selected \cup {idx} ELSE m.selected \ {idx}
      groupMembers == groupMembersFor(m, item)
      cascade == {i \in 0..(Len(m.items) - 1) :
                    /\ m.items[i + 1].kind \in {"alias", "default"} /\ i # idx
                    /\ m.items[i + 1].label \in Range(groupMembers)}
      holders == {i \in 0..(Len(m.items) - 1) :
                    item.label \in Range(groupMembersFor(m, m.items[i + 1]))}
  IN  IF Len(groupMembers) > 0
        THEN [m EXCEPT !.selected = IF selecting THEN toggled \cup cascade
                                    ELSE toggled \ cascade]
      ELSE IF ~selecting /\ item.kind \in {"alias", "default"}
        THEN [m EXCEPT !.selected = toggled \ holders]
      ELSE [m EXCEPT !.selected = toggled]

\* handleKey, up and down
PickCursor ==
  /\ pick.pc = "RPPick"
  /\ \/ pick.cursor > 0 /\ pick' = [pick EXCEPT !.cursor = pick.cursor - 1]
     \/ /\ pick.cursor < Len(pick.items) - 1
        /\ pick' = [pick EXCEPT !.cursor = pick.cursor + 1]
  /\ UNCHANGED <<coreVars, tui, onb, vu, dev>>

\* handleKey, space
PickToggle ==
  /\ pick.pc = "RPPick"
  /\ pick' = toggleSelect(pick, pick.cursor)
  /\ UNCHANGED <<coreVars, tui, onb, vu, dev>>

\* handleKey, esc: the picker is left.
PickLeave ==
  /\ pick.pc = "RPPick"
  /\ pick' = [pick EXCEPT !.pc = "RPDone"]
  /\ UNCHANGED <<coreVars, tui, onb, vu, dev>>

NextPick == PickCursor \/ PickToggle \/ PickLeave

SpecPick == PickInit /\ [][NextPick]_vars

\* ------------------------------------- the device manager's configuration
\* The aliases, the groups and the default device, as the device manager
\* and the 'device alias' and 'device group' commands change them.  The
\* commands run from the shell, the manager between RunDeviceManager and
\* its quit; saving succeeds.
\* What is typed and passed: alias names over a and a", group names over a
\* and b, member lists over the alias names, with the empty and the spaced
\* inputs the handlers refuse or trim.
DmDevices == <<RawR, NameB>>
AliasInputs == MemberNames \cup {NoName, <<"a", " ", "b">>}
GroupInputs == GroupNames \cup {NoName, <<" ", "b">>}
EditInputs == {NoName, RawR, <<"b", " ">>}
DevGroupLists == {<<NameA>>, <<NameQ>>, <<NameA, NameQ>>, <<NameQ, NameA>>}
CsvLists == DevGroupLists \cup {<<NoName>>, <<NameA, NoName>>, <<NameB>>}
DevInputs ==
  [pc : {"DMAliasPrompt"}, text : AliasInputs]
    \cup [pc : {"DMGroupName"}, text : GroupInputs]
    \cup [pc : {"DMAliasEdit"}, text : EditInputs]
DmKeys == {"a", "g", "A", "G", "d", "q", "esc", "enter", "up", "down", " ", "e", "x", "y", "n"}

DevConfigs ==
  {c \in [Devices : UNION {[D -> {RawR}] : D \in SUBSET MemberNames},
          DeviceGroups : UNION {[G -> DevGroupLists] : G \in SUBSET GroupNames},
          RecordDevice : {NoName, NameA, NameB}] : WellFormed(c)}

DmStart(c) ==
  [pc |-> "DMBrowse", config |-> c, cursor |-> 0, input |-> NoName,
   groupSelect |-> <<>>, groupCursor |-> 0, aliasBrowseCursor |-> 0,
   groupBrowseCursor |-> 0, removed |-> {}, lastOp |-> "none"]

DevInit ==
  /\ RecorderInit /\ BackendsIdle /\ TuiIdle /\ OnbIdle /\ VuIdle /\ PickIdle
  /\ \E c \in DevConfigs : dev = [DmStart(c) EXCEPT !.pc = "shell"]

\* delete(m, k) and m[k] = v on a Go map
Without(f, k) == [x \in DOMAIN f \ {k} |-> f[x]]
With(f, k, v) == [x \in DOMAIN f \cup {k} |-> IF x = k THEN v ELSE f[x]]

\* strings.ContainsAny(name, " \t")
ContainsSpace(name) == \E i \in 1..Len(name) : name[i] \in {" ", "\t"}

\* DeviceManager.sortedAliases, sortedGroupNames
sortedAliases(m) == SortNames(DOMAIN m.config.Devices)
sortedGroupNames(m) == SortNames(DOMAIN m.config.DeviceGroups)

\* DeviceManager.aliasForDevice ranges over a map: any of the aliases of
\* the device may be the one returned.
aliasForDevice(m, rawName) ==
  IF \E a \in DOMAIN m.config.Devices : m.config.Devices[a] = rawName
    THEN {a \in DOMAIN m.config.Devices : m.config.Devices[a] = rawName}
    ELSE {NoName}

\* the 0-based place of a name in a sorted list
IndexOf(names, n) == CHOOSE i \in 0..(Len(names) - 1) : names[i + 1] = n

\* the pre-selection of a group's members among the aliases
preselect(m, name) ==
  LET aliases == sortedAliases(m)
  IN  [i \in 1..Len(aliases) |->
         /\ name \in DOMAIN m.config.DeviceGroups
         /\ \E j \in 1..Len(m.config.DeviceGroups[name]) :
              m.config.DeviceGroups[name][j] = aliases[i]]

\* DeviceManager.handleBrowseKey; alias is what aliasForDevice returned.
handleBrowseKey(m, k, alias) ==
  LET devName == DmDevices[m.cursor + 1]
  IN  CASE k = "up" /\ m.cursor > 0 -> [m EXCEPT !.cursor = m.cursor - 1]
        [] k = "down" /\ m.cursor < Len(DmDevices) - 1 -> [m EXCEPT !.cursor = m.cursor + 1]
        [] k = "a" /\ alias # NoName ->
             [m EXCEPT !.aliasBrowseCursor = IndexOf(sortedAliases(m), alias),
                       !.pc = "DMAliasEdit"]
        [] k = "a" /\ alias = NoName -> [m EXCEPT !.pc = "DMAliasPrompt"]
        [] k = "g" -> [m EXCEPT !.pc = "DMGroupName", !.input = NoName]
        [] k = "A" /\ sortedAliases(m) # <<>> ->
             [m EXCEPT !.pc = "DMAliasBrowse", !.aliasBrowseCursor = 0]
        [] k = "G" /\ sortedGroupNames(m) # <<>> ->
             [m EXCEPT !.pc = "DMGroupBrowse", !.groupBrowseCursor = 0]
        [] k = "d" ->
             [m EXCEPT !.config.RecordDevice = IF alias # NoName THEN alias ELSE devName,
                       !.lastOp = "default"]
        [] OTHER -> m

\* DeviceManager.handleAliasKey; text is what the input holds.
handleAliasKey(m, k, text) ==
  LET name == TrimSpace(text)
  IN  CASE k = "esc" -> [m EXCEPT !.pc = "DMBrowse"]
        [] k = "enter" ->
             IF \/ name = NoName
                \/ ContainsSpace(name)
                \/ name \in DOMAIN m.config.Devices
                \/ name \in DOMAIN m.config.DeviceGroups
               THEN m
               ELSE [m EXCEPT !.config.Devices =
                                With(m.config.Devices, name, DmDevices[m.cursor + 1]),
                              !.pc = "DMBrowse", !.lastOp = "aliasCreate"]
        [] OTHER -> m

\* DeviceManager.handleGroupNameKey
handleGroupNameKey(m, k, text) ==
  LET name == TrimSpace(text)
  IN  CASE k = "esc" -> [m EXCEPT !.pc = "DMBrowse"]
        [] k = "enter" ->
             IF \/ name = NoName
                \/ ContainsSpace(name)
                \/ name \in DOMAIN m.config.Devices
               THEN [m EXCEPT !.input = text]
             ELSE IF sortedAliases(m) = <<>>
               THEN [m EXCEPT !.input = text, !.pc = "DMBrowse"]
             ELSE [m EXCEPT !.input = text, !.groupSelect = preselect(m, name),
                            !.groupCursor = 0, !.pc = "DMGroupSelect"]
        [] OTHER -> m

\* DeviceManager.handleGroupSelectKey
handleGroupSelectKey(m, k) ==
  LET aliases == sortedAliases(m)
      name == TrimSpace(m.input)
      picked == {i \in 1..Len(aliases) : i <= Len(m.groupSelect) /\ m.groupSelect[i]}
      selected == SelectSeq(aliases, LAMBDA a : IndexOf(aliases, a) + 1 \in picked)
  IN  CASE k = "esc" -> [m EXCEPT !.pc = "DMBrowse"]
        [] k = "up" /\ m.groupCursor > 0 -> [m EXCEPT !.groupCursor = m.groupCursor - 1]
        [] k = "down" /\ m.groupCursor < Len(aliases) - 1 ->
             [m EXCEPT !.groupCursor = m.groupCursor + 1]
        [] k = " " /\ m.groupCursor < Len(m.groupSelect) ->
             [m EXCEPT !.groupSelect[m.groupCursor + 1] = ~m.groupSelect[m.groupCursor + 1]]
        [] k = "enter" ->
             IF selected = <<>> THEN [m EXCEPT !.pc = "DMBrowse"]
             ELSE [m EXCEPT !.config.DeviceGroups = With(m.config.DeviceGroups, name, selected),
                            !.pc = "DMBrowse", !.lastOp = "groupSave"]
        [] OTHER -> m

\* DeviceManager.handleAliasBrowseKey
handleAliasBrowseKey(m, k) ==
  LET aliases == sortedAliases(m)
  IN  CASE k \in {"esc", "q"} -> [m EXCEPT !.pc = "DMBrowse"]
        [] k = "up" /\ m.aliasBrowseCursor > 0 ->
             [m EXCEPT !.aliasBrowseCursor = m.aliasBrowseCursor - 1]
        [] k = "down" /\ m.aliasBrowseCursor < Len(aliases) - 1 ->
             [m EXCEPT !.aliasBrowseCursor = m.aliasBrowseCursor + 1]
        [] k \in {"e", "enter"} /\ m.aliasBrowseCursor < Len(aliases) ->
             [m EXCEPT !.pc = "DMAliasEdit"]
        [] k \in {"x", "d"} /\ m.aliasBrowseCursor < Len(aliases) ->
             [m EXCEPT !.pc = "DMConfirmDeleteA"]
        [] OTHER -> m

\* DeviceManager.handleAliasEditKey; text is the device name typed.
handleAliasEditKey(m, k, text) ==
  LET newDevice == TrimSpace(text)
      aliases == sortedAliases(m)
  IN  CASE k = "esc" -> [m EXCEPT !.pc = "DMAliasBrowse"]
        [] k = "enter" ->
             IF newDevice = NoName THEN m
             ELSE IF m.aliasBrowseCursor < Len(aliases)
               THEN [m EXCEPT !.config.Devices[aliases[m.aliasBrowseCursor + 1]] = newDevice,
                              !.pc = "DMAliasBrowse", !.lastOp = "aliasEdit"]
             ELSE [m EXCEPT !.pc = "DMAliasBrowse"]
        [] OTHER -> m

\* the deletion of an alias that leaves the groups as they are
deleteAliasKeepGroups(c, name) ==
  [Devices |-> Without(c.Devices, name),
   DeviceGroups |-> c.DeviceGroups,
   RecordDevice |-> IF c.RecordDevice = name THEN NoName ELSE c.RecordDevice]

\* the configuration after the deletion of an alias: it leaves every group,
\* a group it leaves empty goes, and a default that named it is cleared.
deleteAlias(c, name) ==
  LET filtered(gName) == SelectSeq(c.DeviceGroups[gName], LAMBDA mem : mem # name)
      kept == {gName \in DOMAIN c.DeviceGroups : filtered(gName) # <<>>}
  IN  [Devices |-> Without(c.Devices, name),
       DeviceGroups |-> [gName \in kept |-> filtered(gName)],
       RecordDevice |-> IF c.RecordDevice = name THEN NoName ELSE c.RecordDevice]

\* DeviceManager.handleConfirmDeleteAliasKey
handleConfirmDeleteAliasKey(m, k) ==
  LET aliases == sortedAliases(m)
      name == aliases[m.aliasBrowseCursor + 1]
      after == deleteAlias(m.config, name)
      remaining == SortNames(DOMAIN after.Devices)
      cur == IF m.aliasBrowseCursor >= Len(remaining) /\ m.aliasBrowseCursor > 0
               THEN m.aliasBrowseCursor - 1 ELSE m.aliasBrowseCursor
  IN  CASE k = "y" /\ m.aliasBrowseCursor < Len(aliases) ->
             [m EXCEPT !.config = after, !.aliasBrowseCursor = cur,
                       !.removed = {name} \cup (DOMAIN m.config.DeviceGroups
                                                \ DOMAIN after.DeviceGroups),
                       !.lastOp = "aliasDelete",
                       !.pc = IF remaining = <<>> THEN "DMBrowse" ELSE "DMAliasBrowse"]
        [] k \in {"y", "n", "esc"} -> [m EXCEPT !.pc = "DMAliasBrowse"]
        [] OTHER -> m

\* DeviceManager.handleGroupBrowseKey
handleGroupBrowseKey(m, k) ==
  LET groups == sortedGroupNames(m)
      name == groups[m.groupBrowseCursor + 1]
  IN  CASE k \in {"esc", "q"} -> [m EXCEPT !.pc = "DMBrowse"]
        [] k = "up" /\ m.groupBrowseCursor > 0 ->
             [m EXCEPT !.groupBrowseCursor = m.groupBrowseCursor - 1]
        [] k = "down" /\ m.groupBrowseCursor < Len(groups) - 1 ->
             [m EXCEPT !.groupBrowseCursor = m.groupBrowseCursor + 1]
        [] k \in {"e", "enter"} /\ m.groupBrowseCursor < Len(groups) ->
             IF sortedAliases(m) = <<>>
               THEN [m EXCEPT !.input = name, !.pc = "DMBrowse"]
               ELSE [m EXCEPT !.input = name, !.groupSelect = preselect(m, name),
                              !.groupCursor = 0, !.pc = "DMGroupSelect"]
        [] k \in {"x", "d"} /\ m.groupBrowseCursor < Len(groups) ->
             [m EXCEPT !.pc = "DMConfirmDeleteG"]
        [] OTHER -> m

\* DeviceManager.handleConfirmDeleteGroupKey
handleConfirmDeleteGroupKey(m, k) ==
  LET groups == sortedGroupNames(m)
      name == groups[m.groupBrowseCursor + 1]
      remaining == SortNames(DOMAIN m.config.DeviceGroups \ {name})
      cur == IF m.groupBrowseCursor >= Len(remaining) /\ m.groupBrowseCursor > 0
               THEN m.groupBrowseCursor - 1 ELSE m.groupBrowseCursor
  IN  CASE k = "y" /\ m.groupBrowseCursor < Len(groups) ->
             [m EXCEPT !.config.DeviceGroups = Without(m.config.DeviceGroups, name),
                       !.config.RecordDevice =
                         IF m.config.RecordDevice = name THEN NoName
                         ELSE m.config.RecordDevice,
                       !.groupBrowseCursor = cur, !.removed = {name},
                       !.lastOp = "groupDelete",
                       !.pc = IF remaining = <<>> THEN "DMBrowse" ELSE "DMGroupBrowse"]
        [] k \in {"y", "n", "esc"} -> [m EXCEPT !.pc = "DMGroupBrowse"]
        [] OTHER -> m

\* DeviceManager.handleKey: the state picks the handler.
dmHandleKey(m, k, text, alias) ==
  CASE m.pc = "DMBrowse" -> handleBrowseKey(m, k, alias)
    [] m.pc = "DMAliasPrompt" -> handleAliasKey(m, k, text)
    [] m.pc = "DMGroupName" -> handleGroupNameKey(m, k, text)
    [] m.pc = "DMGroupSelect" -> handleGroupSelectKey(m, k)
    [] m.pc = "DMAliasBrowse" -> handleAliasBrowseKey(m, k)
    [] m.pc = "DMAliasEdit" -> handleAliasEditKey(m, k, text)
    [] m.pc = "DMConfirmDeleteA" -> handleConfirmDeleteAliasKey(m, k)
    [] m.pc = "DMGroupBrowse" -> handleGroupBrowseKey(m, k)
    [] m.pc = "DMConfirmDeleteG" -> handleConfirmDeleteGroupKey(m, k)

DmStates ==
  {"DMBrowse", "DMAliasPrompt", "DMGroupName", "DMGroupSelect", "DMAliasBrowse",
   "DMAliasEdit", "DMConfirmDeleteA", "DMGroupBrowse", "DMConfirmDeleteG"}

\* The cursors of the alias and group screens, the member ticks and the
\* group name are set by the key that opens their screen before anything
\* reads them; in the browser they are held at their first values.
Settle(m) ==
  IF m.pc = "DMBrowse"
    THEN [m EXCEPT !.input = NoName, !.groupSelect = <<>>, !.groupCursor = 0,
                   !.aliasBrowseCursor = 0, !.groupBrowseCursor = 0]
    ELSE m

\* a key reaches the device manager; q in the browser is DmQuit
DmKey(k) ==
  /\ dev.pc \in DmStates
  /\ ~(k = "q" /\ dev.pc = "DMBrowse")
  /\ \E text \in {NoName} \cup {i.text : i \in {j \in DevInputs : j.pc = dev.pc}},
        alias \in aliasForDevice(dev, DmDevices[dev.cursor + 1]) :
       LET cleared == [dev EXCEPT !.removed = {}, !.lastOp = "none"]
       IN  /\ dev' = Settle(dmHandleKey(cleared, k, text, alias))
           /\ dev' # dev
  /\ UNCHANGED <<coreVars, tui, onb, vu, pick>>

\* 'device' without a subcommand opens the manager on the stored configuration.
RunDeviceManager ==
  /\ dev.pc = "shell"
  /\ dev' = DmStart(dev.config)
  /\ UNCHANGED <<coreVars, tui, onb, vu, pick>>

\* q in the browser
DmQuit ==
  /\ dev.pc = "DMBrowse"
  /\ dev' = [DmStart(dev.config) EXCEPT !.pc = "shell"]
  /\ UNCHANGED <<coreVars, tui, onb, vu, pick>>

\* runDeviceAlias
CmdDeviceAlias(name, deviceName) ==
  /\ dev.pc = "shell"
  /\ ~ContainsSpace(name)
  /\ name \notin DOMAIN dev.config.DeviceGroups
  /\ dev' = [dev EXCEPT !.config.Devices = With(dev.config.Devices, name, deviceName),
                        !.removed = {}, !.lastOp = "aliasCommand"]
  /\ UNCHANGED <<coreVars, tui, onb, vu, pick>>

\* runDeviceGroup; aliases is the list after the split at commas and the trim.
CmdDeviceGroup(name, aliases) ==
  /\ dev.pc = "shell"
  /\ \A i \in 1..Len(aliases) : aliases[i] \in DOMAIN dev.config.Devices
  /\ dev' = [dev EXCEPT !.config.DeviceGroups = With(dev.config.DeviceGroups, name, aliases),
                        !.removed = {}, !.lastOp = "groupCommand"]
  /\ UNCHANGED <<coreVars, tui, onb, vu, pick>>

NextDev ==
  \/ \E k \in DmKeys : DmKey(k)
  \/ RunDeviceManager
  \/ DmQuit
  \/ \E name \in AliasInputs \ {NoName}, deviceName \in Raws : CmdDeviceAlias(name, deviceName)
  \/ \E name \in GroupNames, aliases \in CsvLists : CmdDeviceGroup(name, aliases)

SpecDev == DevInit /\ [][NextDev]_vars

\* ------------------------------------------------- timestamps on their own
\* srtTime and vttTime applied to times of whole milliseconds.
MaxSecs == 1
TimeSecs == 0..MaxSecs \cup {3661}
Times == {T(sec, msec) : sec \in TimeSecs, msec \in 0..999}

TimeInit ==
  /\ RecorderInit /\ CmdIdle /\ DispIdle /\ TrIdle /\ LocalIdle /\ ArgsIdle /\ UiIdle
  /\ \E t \in Times : pIn = [mode |-> "time", t |-> t]
  /\ pOut = [pc |-> "start"]

RenderTime ==
  /\ pIn.mode = "time"
  /\ pOut.pc = "start"
  /\ pOut' = [pc |-> "done", srt |-> srtTime(pIn.t), vtt |-> vttTime(pIn.t)]
  /\ UNCHANGED <<pIn, recVars, cmdVars, dispVars, trVars, localVars, argsVars, uiVars>>

NextTime == RenderTime

SpecTime == TimeInit /\ [][NextTime]_vars

\* ------------------------------------ claims on parsers and formatter
ParserReturned == pOut.pc \in {"parsed", "failed", "formatted"}
ParserSucceeded == pOut.pc \in {"parsed", "formatted"}

LinesOf(kind) == SelectSeq(pOut.rendered, LAMBDA l : l.kind = kind)

\* C21: a segment's speaker is "Speaker N", N the speaker id of the
\* response, when diarization was requested and the response carried a
\* speaker for that segment; in every other case it is absent.
CE_C21 ==
  ParserSucceeded =>
    \A i \in 1..Len(pOut.result.Segments) :
      LET seg == pOut.result.Segments[i] IN
      IF /\ pIn.doc.schema = "deepgram" /\ pIn.diarize
         /\ pIn.doc.records[i].speaker # <<>>
        THEN seg.Speaker = <<"Speaker ">> \o Itoa(pIn.doc.records[i].speaker[1])
        ELSE seg.Speaker = <<>>

\* C22, as stated: whatever the parser, a Result with segments has the end
\* of its last segment as duration.
CE_C22 ==
  (ParserSucceeded /\ pOut.result.Segments # <<>>) =>
     pOut.result.Duration = pOut.result.Segments[Len(pOut.result.Segments)].End

\* C22, amended: a Result with segments produced by the Mistral parser or
\* by one of the three local parsers has the end of its last segment as
\* duration; the Deepgram and OpenAI parsers take the duration the
\* response states.
T_C22 ==
  ParserSucceeded =>
    IF pIn.doc.schema \in {"deepgram", "openai"}
      THEN pOut.result.Duration = pIn.doc.duration
      ELSE pOut.result.Segments # <<>> =>
             pOut.result.Duration = pOut.result.Segments[Len(pOut.result.Segments)].End

\* whisper-cpp output with two kept segments: the duration is the second
\* segment's end, 3723.25 s, and not the first one's.
W_C22 ==
  /\ ParserSucceeded /\ pIn.doc.schema = "whisper-cpp"
  /\ Len(pOut.result.Segments) = 2
  /\ pOut.result.Segments[1].End = T(1, 500)
  /\ pOut.result.Duration = T(3723, 250)

\* C23: no Result of a local parser contains a segment whose text is
\* empty: such records are dropped in all three schemas.
CE_C23 ==
  (ParserSucceeded /\ pIn.doc.schema \in LocalSchemas) =>
     \A i \in 1..Len(pOut.result.Segments) : pOut.result.Segments[i].Text # <<>>

\* C24: if the output of a local backend, or any record of it, fails to
\* decode, the parser returns an error and no Result.
CE_C24 ==
  (/\ ParserReturned /\ pIn.doc.schema \in LocalSchemas
   /\ \/ ~pIn.doc.ok
      \/ \E i \in 1..Len(pIn.doc.records) : pIn.doc.records[i].kind = "bad") =>
     (pOut.pc = "failed" /\ pOut.err # NoErr)

\* C27: with at least one segment, SRT and VTT have one timestamp line per
\* segment, in segment order, and SRT numbers its entries 1, 2, ...
T_C27 ==
  (/\ pOut.pc = "formatted" /\ pOut.format \in {"srt", "vtt"}
   /\ pOut.result.Segments # <<>>) =>
    LET segs == pOut.result.Segments
        stamp(t) == IF pOut.format = "srt" THEN srtTime(t) ELSE vttTime(t)
    IN  /\ Len(LinesOf("time")) = Len(segs)
        /\ \A i \in 1..Len(segs) :
             LinesOf("time")[i].text =
               stamp(segs[i].Start) \o <<" --> ">> \o stamp(segs[i].End)
        /\ pOut.format = "srt" =>
             /\ Len(LinesOf("index")) = Len(segs)
             /\ \A i \in 1..Len(segs) : LinesOf("index")[i].text = Itoa(i)
        /\ pOut.format = "vtt" => LinesOf("index") = <<>>

\* Two segments rendered as SRT: entries 1 and 2 with their own times.
W_C27 ==
  /\ pOut.pc = "formatted" /\ pOut.format = "srt"
  /\ Len(pOut.result.Segments) = 2
  /\ pOut.result.Segments[1].End # pOut.result.Segments[2].End
  /\ Len(LinesOf("time")) = 2
  /\ LinesOf("index") = <<IndexLine(1), IndexLine(2)>>

CE_C29 ==
  (/\ pOut.pc = "formatted" /\ pOut.format \in {"srt", "vtt"}
   /\ pIn.doc.schema = "deepgram" /\ pOut.result.Segments # <<>>) =>
     /\ Len(LinesOf("text")) = Len(pOut.result.Segments)
     /\ \A i \in 1..Len(pOut.result.Segments) :
          LET seg == pOut.result.Segments[i] IN
          LinesOf("text")[i].text =
            (IF seg.Speaker # <<>> THEN <<"[">> \o seg.Speaker \o <<"] ">> ELSE <<>>)
            \o TrimSpace(seg.Text)

\* --------------------------------------------- claims on the local backend
\* C25: when the context is cancelled while the conversion or the
\* recognition process is running, Transcribe returns an error that is a
\* cancellation (errors.Is(err, context.Canceled)).
CE_C25 ==
  (lOut.pc = "returned" /\ lOut.killed) =>
     (lOut.err # NoErr /\ ErrorsIs(lOut.err, ErrCanceled))

\* C26: when Transcribe has returned after creating its temporary
\* directory, the directory is gone, whatever the return path.
T_C26 == (lOut.pc = "returned" /\ lOut.created) => lOut.tmp = "removed"

\* Return after the recognition process was killed by a cancellation.
W_C26 ==
  /\ lOut.pc = "returned" /\ lOut.created /\ lOut.killed
  /\ lOut.err = Wrap("whisper-cpp failed", ErrKilled)
  /\ lOut.tmp = "removed"

\* ------------------------------------------- claims on the encoder command
\* The command line read as ffmpeg reads it: options with one value each.
Clauses == [k \in 1..(Len(aOut.args) \div 2) |-> <<aOut.args[2 * k - 1], aOut.args[2 * k]>>]
ClausesOf(option) == SelectSeq(Clauses, LAMBDA c : c[1] = <<option>>)

RECURSIVE Labels(_, _)
Labels(from, to) ==
  IF from > to THEN <<>> ELSE <<"[">> \o Itoa(from) \o <<":a]">> \o Labels(from + 1, to)

\* C30: with N >= 2 devices the command has N input clauses, the devices
\* in list order, and exactly one mixing clause: the labels [0:a] to
\* [N-1:a] in ascending order, then amix=inputs=N:duration=longest; with
\* one device there is one input clause and no mixing clause.
T_C30 ==
  (aOut.pc = "built" /\ Len(aIn.Devices) >= 1) =>
    LET N == Len(aIn.Devices)
        head == Labels(0, N - 1) \o <<"amix=inputs=">> \o Itoa(N) \o <<":duration=longest">>
        mix == ClausesOf("-filter_complex")
    IN  /\ aOut.err = NoErr
        /\ Len(aOut.args) % 2 = 0
        /\ Len(ClausesOf("-i")) = N
        /\ N >= 2 =>
             /\ \A i \in 1..N :
                  ClausesOf("-i")[i][2] \in {aIn.Devices[i], <<":">> \o aIn.Devices[i]}
             /\ Len(mix) = 1
             /\ Len(mix[1][2]) >= Len(head)
             /\ SubSeq(mix[1][2], 1, Len(head)) = head
        /\ N = 1 => mix = <<>>

\* Three devices, one of them named like the mixing option.
W_C30 ==
  /\ aOut.pc = "built" /\ Len(aIn.Devices) = 3
  /\ aIn.Devices[2] = <<"-filter_complex">> /\ aIn.Devices[1] # aIn.Devices[3]
  /\ Len(ClausesOf("-filter_complex")) = 1
  /\ SubSeq(ClausesOf("-filter_complex")[1][2], 1, 11) =
       <<"[", "0", ":a]", "[", "1", ":a]", "[", "2", ":a]", "amix=inputs=", "3">>

\* C31: a Transcribe call of a local backend with diarize, smart-format
\* or punctuate requested, when the variant does not take that flag,
\* returns "<backend> does not support --<flag>" and no Result.
CE_C31 ==
  (lOut.pc = "returned") =>
    \A f \in {"diarize", "smart-format", "punctuate"} :
      (lIn.opts[f] /\ ~LocalCapability(lIn.variant)[f]) =>
         lOut.err = ErrUnsupported(WhisperName(lIn.variant), f)

\* ------------------------------------------ claims on the recording screen
\* C32, as stated: q or Q pressed in Recording or Paused stops the
\* recorder, resumed first when paused, and the screen is Saved and quits.
CE_C32 ==
  (tui.lastKey \in {"q", "Q"} /\ tui.lastState \in {"StateRecording", "StatePaused"}) =>
     /\ tui.stops > 0 /\ tui.stdinClosed /\ ~tui.paused /\ tui.proc # "suspended"
     /\ tui.state = "StateSaved" /\ tui.quit

\* C32, amended: q or Q pressed in Recording or Paused while the device
\* overlay is not shown stops the recorder (resumed first when paused, "q"
\* written, stdin closed) and the screen is Saved with the quit issued; the
\* transcribe flag is set only if the last key handled outside the overlay
\* was Q or a Q came before.
T_C32 ==
  /\ (/\ tui.lastKey \in {"q", "Q"} /\ ~tui.lastPicker
      /\ tui.lastState \in {"StateRecording", "StatePaused"}) =>
        /\ tui.stops > 0 /\ tui.stdinClosed /\ ~tui.paused /\ tui.proc # "suspended"
        /\ tui.state = "StateSaved" /\ tui.quit
  /\ (tui.lastKey = "Q" /\ ~tui.lastPicker) => tui.transcribe
  /\ (tui.stops = 1 /\ tui.lastKey \in {"q", "ctrl+c"} /\ ~tui.lastPicker) => ~tui.transcribe
  /\ tui.stops = 0 => ~tui.transcribe

\* q pressed while paused: the process runs again and has its "q".
W_C32 ==
  /\ tui.lastKey = "q" /\ tui.lastState = "StatePaused" /\ ~tui.lastPicker
  /\ tui.state = "StateSaved" /\ tui.proc = "running" /\ tui.stdinQ = 1
  /\ ~tui.transcribe

\* C34, as stated: the process is suspended exactly when the screen is
\* Paused.
CE_C34 == (tui.proc = "suspended") <=> (tui.state = "StatePaused")

\* C34, amended: while ffmpeg has not exited it is suspended exactly when
\* the screen is Paused; a suspended process always has the screen Paused;
\* the recorder's pause is never toggled after a stop, and the screen
\* never leaves Saved.
T_C34 ==
  /\ tui.proc # "exited" => ((tui.proc = "suspended") <=> (tui.state = "StatePaused"))
  /\ tui.proc = "suspended" => tui.state = "StatePaused"
  /\ ~tui.pausedAfterStop
  /\ ~tui.leftSaved

\* Saved after a stop from Paused, and p pressed afterwards.
W_C34 ==
  /\ tui.state = "StateSaved" /\ tui.stops > 0 /\ tui.lastKey = "p"
  /\ tui.lastState = "StateSaved" /\ ~tui.lastPicker /\ tui.proc = "running"

\* ------------------------------------------------- claims on onboarding
\* C33: RunOnboarding returns completed = true only when a device was
\* selected and the configuration was written; it returns false whenever
\* the write failed.
CE_C33 ==
  onb.pc = "returned" =>
    /\ onb.result => (onb.recordDevice # <<>> /\ onb.save = "ok")
    /\ onb.save = "err" => ~onb.result

\* --------------------------------------- claims on the device manager
\* C35: at most one preview process runs at any time, and a preview whose
\* cancel channel stopVU has closed has no running process from then on.
CE_C35 ==
  /\ Cardinality({i \in Previews : vu.g[i].proc = "running"}) <= 1
  /\ \A i \in Previews : vu.g[i].cancelled => vu.g[i].proc # "running"

\* --------------------------------------------- claims on the record picker
\* C36: every selected group item has all the items of its member aliases
\* selected.
CE_C36 ==
  \A i \in pick.selected :
    \A j \in 0..(Len(pick.items) - 1) :
      (/\ pick.items[j + 1].kind \in {"alias", "default"}
       /\ pick.items[j + 1].label \in Range(groupMembersFor(pick, pick.items[i + 1])))
      => j \in pick.selected

\* ---------------------------------- claims on the aliases and the groups
GroupsSound(c) ==
  \A gName \in DOMAIN c.DeviceGroups :
    /\ c.DeviceGroups[gName] # <<>>
    /\ Range(c.DeviceGroups[gName]) \subseteq DOMAIN c.Devices

\* C37: whatever aliases and groups are created, edited and deleted in the
\* device manager or by the commands, every stored group has members and
\* every member is a defined alias.
T_C37 == dev.pc # "none" => GroupsSound(dev.config)

\* an alias was deleted, a group it emptied went with it, and a group that
\* listed it among others is still there
W_C37 ==
  /\ dev.pc # "none"
  /\ dev.lastOp = "aliasDelete"
  /\ \E gName \in dev.removed : gName \notin DOMAIN dev.config.DeviceGroups
  /\ DOMAIN dev.config.DeviceGroups # {}
  /\ Cardinality(dev.removed) = 2

\* C38: after a deletion in the device manager the default device does not
\* name an alias or a group that the deletion removed.
CE_C38 ==
  dev.pc # "none" =>
    ~(/\ dev.config.RecordDevice \in dev.removed
      /\ dev.config.RecordDevice \notin DOMAIN dev.config.Devices
      /\ dev.config.RecordDevice \notin DOMAIN dev.config.DeviceGroups)

\* C39: no name is an alias and a group at once.
CE_C39 ==
  dev.pc # "none" => DOMAIN dev.config.Devices \cap DOMAIN dev.config.DeviceGroups = {}

\* ------------------------------------------------- claims on the timestamps
\* the rendering that shows the time as it is
ShownExactly(t, sep) ==
  Pad(Itoa(t.s \div 3600), 2) \o <<":">> \o Pad(Itoa((t.s % 3600) \div 60), 2)
  \o <<":">> \o Pad(Itoa(t.s % 60), 2) \o <<sep>> \o Pad(Itoa(t.ms), 3)

\* C40: a time of whole milliseconds is rendered with its hours, minutes,
\* seconds and exactly its milliseconds, after a comma in SRT and after a
\* dot in VTT.
CE_C40 ==
  (pIn.mode = "time" /\ pOut.pc = "done") =>
    /\ pOut.srt = ShownExactly(pIn.t, ",")
    /\ pOut.vtt = ShownExactly(pIn.t, ".")

====
